---------------------------- MODULE Spec2Model ----------------------------
(***************************************************************************)
(* Model of the agent of oarkflow/container: the framed IPC server         *)
(* (pkg/isolate/agent/ipc_server.go), its frame codec, and the IPC client  *)
(* (pkg/isolate/agent/ipc_client.go).                                      *)
(*                                                                         *)
(* Strings of the program are strings; strings.HasPrefix,                  *)
(* strings.HasSuffix and the path/filepath functions are computed on them  *)
(* the way the Go library computes them (Unix build: the separator is      *)
(* "/").  Byte slices are sequences of numbers 0..255.                     *)
(***************************************************************************)
EXTENDS Integers, Sequences, FiniteSets, TLC

(***************************************************************************)
(* strings package                                                         *)
(***************************************************************************)
\* s[i] of Go, as a string of one character
At(s, i) == SubSeq(s, i, i)

HasPrefix(s, p) ==
    /\ Len(p) <= Len(s)
    /\ SubSeq(s, 1, Len(p)) = p

HasSuffix(s, p) ==
    /\ Len(p) <= Len(s)
    /\ SubSeq(s, Len(s) - Len(p) + 1, Len(s)) = p

\* strings.Contains(s, c) for a one-character c
ContainsChar(s, c) == \E i \in 1..Len(s) : At(s, i) = c

Min(a, b) == IF a <= b THEN a ELSE b

(***************************************************************************)
(* path/filepath (Unix)                                                    *)
(***************************************************************************)
Sep == "/"

\* the elements of s between separators: Split("/a") = <<"", "a">>
RECURSIVE SplitFrom(_, _, _)
SplitFrom(s, i, cur) ==
    IF i > Len(s) THEN <<cur>>
    ELSE IF At(s, i) = Sep THEN <<cur>> \o SplitFrom(s, i + 1, "")
    ELSE SplitFrom(s, i + 1, cur \o At(s, i))

Split(s) == SplitFrom(s, 1, "")

RECURSIVE JoinElems(_)
JoinElems(es) ==
    IF Len(es) = 0 THEN ""
    ELSE IF Len(es) = 1 THEN es[1]
    ELSE es[1] \o Sep \o JoinElems(Tail(es))

IsAbs(path) == HasPrefix(path, Sep)

\* filepath.Clean's element stack: "" and "." are dropped, ".." removes the
\* element before it, is dropped at the root, and is kept at the front of a
\* relative path.
RECURSIVE CleanElems(_, _, _)
CleanElems(es, rooted, out) ==
    IF Len(es) = 0 THEN out
    ELSE LET e == Head(es) IN
         IF e = "" \/ e = "." THEN CleanElems(Tail(es), rooted, out)
         ELSE IF e = ".." THEN
              IF Len(out) > 0 /\ out[Len(out)] # ".."
                  THEN CleanElems(Tail(es), rooted, SubSeq(out, 1, Len(out) - 1))
              ELSE IF rooted THEN CleanElems(Tail(es), rooted, out)
              ELSE CleanElems(Tail(es), rooted, Append(out, e))
         ELSE CleanElems(Tail(es), rooted, Append(out, e))

Clean(path) ==
    IF path = "" THEN "."
    ELSE LET rooted == IsAbs(path)
             out == CleanElems(Split(path), rooted, <<>>)
         IN IF rooted THEN Sep \o JoinElems(out)
            ELSE IF Len(out) = 0 THEN "."
            ELSE JoinElems(out)

\* filepath.Join(a, b): the non-empty elements joined by a separator, cleaned
Join(a, b) ==
    IF a = "" /\ b = "" THEN ""
    ELSE IF a = "" THEN Clean(b)
    ELSE IF b = "" THEN Clean(a)
    ELSE Clean(a \o Sep \o b)

\* filepath.Base
RECURSIVE StripTrailingSep(_)
StripTrailingSep(s) ==
    IF Len(s) > 0 /\ At(s, Len(s)) = Sep THEN StripTrailingSep(SubSeq(s, 1, Len(s) - 1))
    ELSE s

Base(path) ==
    IF path = "" THEN "."
    ELSE LET p == StripTrailingSep(path) IN
         IF p = "" THEN Sep
         ELSE LET es == Split(p) IN es[Len(es)]

\* the elements Rel walks over: those of the cleaned path, the root "/"
\* counting as the single empty first element
RelElems(cleaned) ==
    IF cleaned = Sep THEN <<"">>
    ELSE IF cleaned = "" THEN <<>>
    ELSE Split(cleaned)

RECURSIVE CommonLen(_, _)
CommonLen(b, t) ==
    IF Len(b) = 0 \/ Len(t) = 0 \/ Head(b) # Head(t) THEN 0
    ELSE 1 + CommonLen(Tail(b), Tail(t))

RECURSIVE Ups(_)
Ups(n) == IF n = 0 THEN <<>> ELSE <<"..">> \o Ups(n - 1)

\* filepath.Rel(basepath, targpath): [err |-> BOOLEAN, path |-> string]
Rel(basepath, targpath) ==
    LET base0 == Clean(basepath)
        targ  == Clean(targpath)
        base  == IF base0 = "." THEN "" ELSE base0
        b     == RelElems(base)
        t     == RelElems(targ)
        k     == CommonLen(b, t)
    IN  IF targ = base0 THEN [err |-> FALSE, path |-> "."]
        ELSE IF IsAbs(base) # IsAbs(targ) THEN [err |-> TRUE, path |-> ""]
        ELSE IF k < Len(b) /\ k < Len(t) /\ b[k + 1] = ".."
            THEN [err |-> TRUE, path |-> ""]
        ELSE IF k < Len(b)
            THEN [err |-> FALSE,
                  path |-> JoinElems(Ups(Len(b) - k) \o SubSeq(t, k + 1, Len(t)))]
        ELSE [err |-> FALSE, path |-> JoinElems(SubSeq(t, k + 1, Len(t)))]


(***************************************************************************)
(* Server.validatePaths, Server.checkPathWithinRoot, Server.isInterpreter  *)
(***************************************************************************)
\* validatePaths: shellCommands
shellCommands ==
    <<"/bin/sh", "/bin/bash", "/bin/zsh", "sh", "bash", "zsh",
      "cmd.exe", "powershell.exe", "pwsh.exe", "cmd", "powershell", "pwsh">>

\* isInterpreter: interpreters
interpreters ==
    <<"python", "python2", "python3", "node", "nodejs", "ruby", "irb", "php",
      "perl", "lua", "java", "javac", "go", "gofmt",
      "bash", "sh", "zsh", "fish", "ksh", "cmd.exe", "powershell.exe", "pwsh.exe">>

\* a shell matched by equality only
isShellExact(path) ==
    \E i \in 1..Len(shellCommands) : path = shellCommands[i]

\* the loop over shellCommands
isShell(path) ==
    \E i \in 1..Len(shellCommands) :
        HasSuffix(path, shellCommands[i]) \/ path = shellCommands[i]

\* "there's a script file argument"
isScriptArg(arg) ==
    /\ ~HasPrefix(arg, "-")
    /\ \/ HasSuffix(arg, ".sh")
       \/ HasSuffix(arg, ".bash")
       \/ HasSuffix(arg, ".ps1")
       \/ HasSuffix(arg, ".bat")
       \/ HasSuffix(arg, ".cmd")

\* relPath, err := filepath.Rel(root, absPath); err != nil || HasPrefix(relPath, "..")
escapesRoot(root, absPath) ==
    LET r == Rel(root, absPath) IN r.err \/ HasPrefix(r.path, "..")

checkPathWithinRoot(root, path) ==
    LET absPath == IF IsAbs(path) THEN Clean(path) ELSE Clean(Join(root, path))
    IN  IF escapesRoot(root, absPath) THEN "outside root" ELSE ""

\* "looks like a file path (but not command flags)"
looksLikePath(arg) ==
    /\ ContainsChar(arg, "/") \/ ContainsChar(arg, "\\")
    /\ ~HasPrefix(arg, "-")

\* an argument resolved against the working directory whether absolute or not
argAbsPathIgnoringAbs(wd, arg) == Clean(Join(wd, arg))

\* the absolute path an argument is checked as
argAbsPath(wd, arg) ==
    IF IsAbs(arg) THEN Clean(arg) ELSE Clean(Join(wd, arg))

\* the loop over payload.Args: the index (from 0) of the first argument that
\* escapes, or -1
RECURSIVE firstEscapingArg(_, _, _, _)
firstEscapingArg(root, wd, args, i) ==
    IF i > Len(args) THEN -1
    ELSE IF looksLikePath(args[i]) /\ escapesRoot(root, argAbsPath(wd, args[i]))
        THEN i - 1
    ELSE firstEscapingArg(root, wd, args, i + 1)

NoErr == ""

\* validatePaths(payload): the error ("" for nil) and payload.WorkingDir as the
\* call leaves it
validatePaths(root, p) ==
    LET hasDashC == \E i \in 1..Len(p.Args) : p.Args[i] = "-c"
        hasScriptArg == \E i \in 1..Len(p.Args) : isScriptArg(p.Args[i])
        wdErr == IF p.WorkingDir # ""
                    THEN checkPathWithinRoot(root, p.WorkingDir) ELSE NoErr
        wd == IF p.WorkingDir # "" THEN p.WorkingDir ELSE root
        cmdEscapes ==
            /\ ~IsAbs(p.Path)
            /\ ContainsChar(p.Path, "/") \/ ContainsChar(p.Path, "\\")
            /\ escapesRoot(root, Clean(Join(wd, p.Path)))
        bad == firstEscapingArg(root, wd, p.Args, 1)
        res(e, w, i) == [err |-> e, WorkingDir |-> w, arg |-> i]
    IN  IF root = "" THEN res(NoErr, p.WorkingDir, -1)
        ELSE IF isShell(p.Path) /\ hasDashC
            THEN res("shell commands with -c flag are not allowed", p.WorkingDir, -1)
        ELSE IF isShell(p.Path) /\ ~hasScriptArg
            THEN res("shell commands without script files are not allowed",
                     p.WorkingDir, -1)
        ELSE IF wdErr # NoErr THEN res("working directory is outside root", p.WorkingDir, -1)
        ELSE IF cmdEscapes THEN res("command path escapes root", wd, -1)
        ELSE IF bad >= 0 THEN res("argument path escapes root", wd, bad)
        ELSE res(NoErr, wd, -1)

\* an interpreter matched by its exact name only
isInterpreterExact(cmdPath) ==
    \E i \in 1..Len(interpreters) : Base(cmdPath) = interpreters[i]

isInterpreter(cmdPath) ==
    LET baseName == Base(cmdPath) IN
    \E i \in 1..Len(interpreters) :
        baseName = interpreters[i] \/ HasPrefix(baseName, interpreters[i])


(***************************************************************************)
(* encoding/json of a []byte field (chunkPayload.Data, stdinPayload.Data,  *)
(* execResultPayload.Stdout/Stderr): standard base64 with padding.  An     *)
(* encoded value is a sequence of sextets 0..63, Pad standing for "=".     *)
(***************************************************************************)
Pad == 64

RECURSIVE Base64Encode(_)
Base64Encode(bs) ==
    IF Len(bs) = 0 THEN <<>>
    ELSE IF Len(bs) = 1 THEN
        <<bs[1] \div 4, (bs[1] % 4) * 16, Pad, Pad>>
    ELSE IF Len(bs) = 2 THEN
        <<bs[1] \div 4, (bs[1] % 4) * 16 + bs[2] \div 16, (bs[2] % 16) * 4, Pad>>
    ELSE <<bs[1] \div 4,
           (bs[1] % 4) * 16 + bs[2] \div 16,
           (bs[2] % 16) * 4 + bs[3] \div 64,
           bs[3] % 64>>
         \o Base64Encode(SubSeq(bs, 4, Len(bs)))

\* a decoder that takes the padding for data: every quantum yields three bytes
RECURSIVE Base64DecodeNoPad(_)
Base64DecodeNoPad(cs) ==
    IF Len(cs) < 4 THEN <<>>
    ELSE <<(cs[1] * 4 + cs[2] \div 16) % 256,
           ((cs[2] % 16) * 16 + cs[3] \div 4) % 256,
           ((cs[3] % 4) * 64 + cs[4]) % 256>>
         \o Base64DecodeNoPad(SubSeq(cs, 5, Len(cs)))

RECURSIVE Base64Decode(_)
Base64Decode(cs) ==
    IF Len(cs) < 4 THEN <<>>
    ELSE LET b1 == cs[1] * 4 + cs[2] \div 16
             b2 == (cs[2] % 16) * 16 + cs[3] \div 4
             b3 == (cs[3] % 4) * 64 + cs[4]
         IN  IF cs[3] = Pad THEN <<b1>>
             ELSE IF cs[4] = Pad THEN <<b1, b2>>
             ELSE <<b1, b2, b3>> \o Base64Decode(SubSeq(cs, 5, Len(cs)))

(***************************************************************************)
(* Bounds of the model                                                     *)
(***************************************************************************)
\* Server.chunkSize (ServerConfig.ChunkSize) of the modelled server
ChunkSize == 2
\* Server.bufLimit (ServerConfig.MaxResultBuffer) of the modelled server
BufLimit == 1
\* IPCClient.chunkSize of the modelled client
ClientChunkSize == 2
\* most bytes the child writes to its stdout
MaxOut == 2
\* most bytes the child writes to its stderr
MaxErr == 1
\* most frames the client writes on one connection
MaxClientFrames == 2

Streams == {"stdout", "stderr"}

\* the zero value of a payload or a record that is not in use
None == [none |-> TRUE]

VARIABLES
    rootDir,        \* Server.rootDir ("" when unset)
    chroot,         \* Server.chrootExecutor != nil
    allowInsecure,  \* Server.allowInsecure
    connUp,         \* the client's end of the connection is open
    connClosed,     \* handleConn has returned: its deferred conn.Close() ran
    c2s,            \* frames written by the client, not yet read by the server
    s2c,            \* frames written by the server on the connection, in order
    nsent,          \* number of frames the client has written
    readDeadline,   \* conn.SetReadDeadline(time.Now()) was called
    hpc,            \* position of handleConn / runExec / handleFilePut / handleFileGet
    payload,        \* payload of the dispatched request
    child,          \* the child process: state, exit code, killed by signal
    cmdDir,         \* command.Dir the child is started with
    wrote,          \* bytes the child has written, per stream
    pipe,           \* bytes in the stdout/stderr pipe, not yet read, per stream
    pipeOpen,       \* the parent's read end of the pipe is open, per stream
    pump,           \* position of streamPipe, per stream
    collector,      \* limitedBuffer contents, per stream
    stdinPc,        \* position of consumeStdin
    childStdin,     \* bytes written to the child's stdin
    deadline,       \* the context deadline of the exec
    waitErr,        \* what command.Wait() returned
    fs,             \* the file system: per path, whether a file exists and its content
    xfer,           \* the transfer in progress: bytes written / offset sent
    cli,            \* state of the client operation in progress
    am,             \* AgentManager: running, cmd, the holder of mu, and whether
                    \* running was last set for a daemon found, not spawned
    procs,          \* the daemon processes: state, and the exit monitor of each
    sock,           \* the socket path: the file exists, the process listening on it
    call,           \* the Start and Stop calls of each caller of the AgentManager
    boot,           \* NewServer: the ServerConfig and the process it is called in
    writer,         \* a frameWriter: its mutex, its senders, the bytes on its io.Writer
    env,            \* the environment of the daemon, of a request and of its child
    mgr             \* a container Manager, the containers it made and the last call

srvVars  == <<rootDir, chroot, allowInsecure>>
connVars == <<connUp, connClosed, c2s, s2c, nsent, readDeadline>>
execVars == <<child, cmdDir, wrote, pipe, pipeOpen, pump, collector, stdinPc,
              childStdin, deadline, waitErr>>
fileVars == <<fs, xfer>>
supVars  == <<am, procs, sock, call>>
sideVars == <<boot, writer, env, mgr>>
vars == <<rootDir, chroot, allowInsecure, connUp, connClosed, c2s, s2c, nsent,
          readDeadline, hpc, payload, child, cmdDir, wrote, pipe, pipeOpen, pump,
          collector, stdinPc, childStdin, deadline, waitErr, fs, xfer, cli,
          am, procs, sock, call, boot, writer, env, mgr>>

(***************************************************************************)
(* The AgentManager and the daemons of its socket path, at rest            *)
(***************************************************************************)
\* most daemons one AgentManager spawns
MaxSpawns == 2
\* most Start and Stop calls of one caller
MaxCalls == 2

\* the goroutines that call Start and Stop
Callers == {1, 2}
\* the daemons the AgentManager spawns, and a daemon started by somebody else
Spawned == 1..MaxSpawns
External == MaxSpawns + 1
\* a nil am.cmd, a free am.mu, a socket path nobody listens on
NoProc == 0

NewProc ==
    [state |-> "none", monitor |-> "none", sig |-> "none", exit |-> "none", lerr |-> "none"]

\* NewAgentManager, and callers that have called nothing
SupIdle ==
    /\ boot = None /\ writer = None /\ env = None /\ mgr = None
    /\ am = [running |-> FALSE, cmd |-> NoProc, mu |-> NoProc, reused |-> FALSE]
    /\ procs = [p \in 1..External |-> NewProc]
    /\ sock = [file |-> FALSE, listener |-> NoProc]
    /\ call = [c \in Callers |-> [pc |-> "idle", op |-> "none", done |-> <<>>]]

(***************************************************************************)
(* frameWriter.send and readFrame                                          *)
(***************************************************************************)
Frame(typ, pl) == [type |-> typ, payload |-> pl]

\* the connection after writer.send(typ, pl): a write on a connection the
\* client has closed fails and the frame is lost
Send(log, typ, pl) == IF connUp THEN Append(log, Frame(typ, pl)) ELSE log

\* errorPayload{Message}: the message as its parts, a fixed text first
errorPayload(msg) == [Message |-> <<msg>>]

\* a frame json cannot decode
Malformed == "<malformed>"
\* a payload json.Unmarshal rejects for the type of the frame
BadPayload == [bad |-> TRUE]

\* readFrame(dec) returns a frame
FrameReady == Len(c2s) > 0 /\ c2s[1].type # Malformed

\* readFrame(dec) fails in handleConn / handleFilePut: end of stream or bad JSON
ReadFails ==
    \/ Len(c2s) = 0 /\ ~connUp
    \/ Len(c2s) > 0 /\ c2s[1].type = Malformed

\* a return that leaves the connection open
ReturnOpen == hpc' = "closed" /\ connClosed' = connClosed

\* the handler returns: the deferred conn.Close() of handleConn runs
Return == hpc' = "closed" /\ connClosed' = TRUE


(***************************************************************************)
(* Server.handleConn                                                       *)
(***************************************************************************)
\* a ping read and left unanswered
HandleConnPingSilent ==
    /\ hpc = "idle" /\ FrameReady /\ c2s[1].type = "ping"
    /\ c2s' = Tail(c2s)
    /\ UNCHANGED <<sideVars, supVars, srvVars, connUp, connClosed, s2c, nsent, readDeadline,
                   hpc, payload, execVars, fileVars, cli>>

\* case frameTypePing: reply pong and read the next frame
HandleConnPing ==
    /\ hpc = "idle" /\ FrameReady /\ c2s[1].type = "ping"
    /\ c2s' = Tail(c2s)
    /\ s2c' = Send(s2c, "pong", None)
    /\ UNCHANGED <<sideVars, supVars, srvVars, connUp, connClosed, nsent, readDeadline, hpc,
                   payload, execVars, fileVars, cli>>

\* the three request cases: a payload that does not unmarshal is answered
\* with an error frame, any other is handed to the handler named by next
Dispatch(typ, next) ==
    /\ hpc = "idle" /\ FrameReady /\ c2s[1].type = typ
    /\ c2s' = Tail(c2s)
    /\ IF c2s[1].payload = BadPayload
          THEN /\ s2c' = Send(s2c, "error", errorPayload("json: cannot unmarshal"))
               /\ Return
               /\ UNCHANGED payload
          ELSE /\ hpc' = next
               /\ payload' = c2s[1].payload
               /\ UNCHANGED <<s2c, connClosed>>
    /\ UNCHANGED <<sideVars, supVars, srvVars, connUp, nsent, readDeadline, execVars, fileVars,
                   cli>>

HandleConnExecRequest == Dispatch("exec_request", "runExec")

HandleConnFilePutRequest == Dispatch("file_put_request", "filePut")

HandleConnFileGetRequest == Dispatch("file_get_request", "fileGet")

\* default: any other frame type
HandleConnUnsupported ==
    /\ hpc = "idle" /\ FrameReady
    /\ c2s[1].type \notin {"ping", "exec_request", "file_put_request", "file_get_request"}
    /\ c2s' = Tail(c2s)
    /\ s2c' = Send(s2c, "error", errorPayload("unsupported frame"))
    /\ Return
    /\ UNCHANGED <<sideVars, supVars, srvVars, connUp, nsent, readDeadline, payload, execVars,
                   fileVars, cli>>

\* readFrame fails: return without a frame
HandleConnReadError ==
    /\ hpc = "idle" /\ ReadFails
    /\ Return
    /\ UNCHANGED <<sideVars, supVars, srvVars, connUp, c2s, s2c, nsent, readDeadline, payload,
                   execVars, fileVars, cli>>

(***************************************************************************)
(* Server.runExec, up to command.Start()                                   *)
(***************************************************************************)
SecurityViolation == "security violation: "
InterpreterRefused == "security error: cannot execute interpreter without chroot isolation"

\* the first block of runExec with the interpreter policy decided before
\* path validation
RunExecValidateInterpreterFirst ==
    /\ hpc = "runExec"
    /\ LET checked == rootDir # "" /\ ~chroot
           v == validatePaths(rootDir, payload)
       IN  IF checked /\ isInterpreter(payload.Path) /\ ~allowInsecure
              THEN /\ s2c' = Send(s2c, "error", errorPayload(InterpreterRefused))
                   /\ Return
                   /\ UNCHANGED payload
           ELSE IF checked /\ v.err # NoErr
              THEN /\ s2c' = Send(s2c, "error",
                                  [Message |-> <<SecurityViolation, v.err>>, arg |-> v.arg])
                   /\ Return
                   /\ UNCHANGED payload
           ELSE /\ hpc' = "start"
                /\ payload' = IF checked THEN [payload EXCEPT !.WorkingDir = v.WorkingDir]
                              ELSE payload
                /\ UNCHANGED <<s2c, connClosed>>
    /\ UNCHANGED <<sideVars, supVars, srvVars, connUp, c2s, nsent, readDeadline, execVars,
                   fileVars, cli>>

\* the first block of runExec: path validation and the interpreter policy,
\* both only with a root directory and without chroot
RunExecValidate ==
    /\ hpc = "runExec"
    /\ LET checked == rootDir # "" /\ ~chroot
           v == validatePaths(rootDir, payload)
       IN  IF checked /\ v.err # NoErr
              THEN /\ s2c' = Send(s2c, "error",
                                  [Message |-> <<SecurityViolation, v.err>>, arg |-> v.arg])
                   /\ Return
                   /\ UNCHANGED payload
           ELSE IF checked /\ isInterpreter(payload.Path) /\ ~allowInsecure
              THEN /\ s2c' = Send(s2c, "error", errorPayload(InterpreterRefused))
                   /\ Return
                   /\ UNCHANGED payload
           ELSE /\ hpc' = "start"
                /\ payload' = IF checked THEN [payload EXCEPT !.WorkingDir = v.WorkingDir]
                              ELSE payload
                /\ UNCHANGED <<s2c, connClosed>>
    /\ UNCHANGED <<sideVars, supVars, srvVars, connUp, c2s, nsent, readDeadline, execVars,
                   fileVars, cli>>

\* ChrootExecutor.PrepareCommand: cmd.Dir relative to the jail
PrepareCommandDir(root, workDir) ==
    IF workDir # ""
        THEN LET r == Rel(root, workDir) IN
             IF r.err THEN Sep ELSE Sep \o r.path
    ELSE Sep

\* execve of a path: the kernel refuses the empty path and a path with a
\* trailing separator that names a file (ENOENT, ENOTDIR); any start may fail
StartMaySucceed(path) == path # "" /\ At(path, Len(path)) # Sep

\* working directories of the daemon process; agentd never changes its own
DaemonCwds == {"/", "/r"}

\* the directory a child with command.Dir = dir is started in by a daemon
\* whose working directory is cwd: chdir(dir) in the child resolves a relative
\* dir against cwd, and an empty dir leaves the child in cwd
StartDir(cwd, dir) ==
    IF dir = "" THEN cwd
    ELSE IF IsAbs(dir) THEN Clean(dir)
    ELSE Clean(Join(cwd, dir))

Running == [state |-> "running", code |-> 0, signaled |-> FALSE]
NoChild == [state |-> "none", code |-> 0, signaled |-> FALSE]

\* the deadline context, command.Dir, the chroot template, the three pipes,
\* command.Start(), and on success the two streamPipe tasks and consumeStdin
RunExecStart ==
    /\ hpc = "start"
    /\ cmdDir' = IF chroot THEN PrepareCommandDir(rootDir, payload.WorkingDir)
                 ELSE payload.WorkingDir
    /\ \E ok \in {b \in BOOLEAN : b => StartMaySucceed(payload.Path)} :
         IF ok
            THEN /\ child' = Running
                 /\ deadline' = IF payload.TimeoutMilli > 0 THEN "armed" ELSE "none"
                 /\ pump' = [s \in Streams |-> "run"]
                 /\ stdinPc' = "run"
                 /\ hpc' = "wait"
                 /\ UNCHANGED <<s2c, connClosed>>
            ELSE /\ s2c' = Send(s2c, "error", errorPayload("exec: start failed"))
                 /\ Return
                 /\ UNCHANGED <<child, deadline, pump, stdinPc>>
    /\ UNCHANGED <<sideVars, supVars, srvVars, connUp, c2s, nsent, readDeadline, payload,
                   wrote, pipe, pipeOpen, collector, childStdin, waitErr, fileVars, cli>>


(***************************************************************************)
(* The child process and the deadline context (os/exec)                    *)
(***************************************************************************)
\* what the child writes when it runs to its end, per stream; it may exit
\* after any prefix
ChildOutput ==
    [s \in Streams |-> IF s = "stdout" THEN <<72, 105, 33, 10>> ELSE <<101, 114, 33, 10>>]
\* exit codes the child may exit with
ExitCodes == {0, 3}
\* ExitError.ExitCode() of a process terminated by a signal
SignalExitCode == -1

ChildWrite(s) ==
    /\ child.state = "running"
    /\ Len(wrote[s]) < Min(Len(ChildOutput[s]), IF s = "stdout" THEN MaxOut ELSE MaxErr)
    /\ LET b == ChildOutput[s][Len(wrote[s]) + 1] IN
         /\ wrote' = [wrote EXCEPT ![s] = Append(@, b)]
         /\ pipe' = [pipe EXCEPT ![s] = Append(@, b)]
    /\ UNCHANGED <<sideVars, supVars, srvVars, connVars, hpc, payload, child, cmdDir, pipeOpen,
                   pump, collector, stdinPc, childStdin, deadline, waitErr, fileVars, cli>>

ChildExit ==
    /\ child.state = "running"
    /\ \E code \in ExitCodes :
         child' = [state |-> "exited", code |-> code, signaled |-> FALSE]
    /\ UNCHANGED <<sideVars, supVars, srvVars, connVars, hpc, payload, cmdDir, wrote, pipe,
                   pipeOpen, pump, collector, stdinPc, childStdin, deadline, waitErr, fileVars,
                   cli>>

\* exec.CommandContext: the deadline fires while the child runs and kills it
DeadlineKill ==
    /\ deadline = "armed"
    /\ child.state = "running"
    /\ deadline' = "fired"
    /\ child' = [state |-> "exited", code |-> SignalExitCode, signaled |-> TRUE]
    /\ UNCHANGED <<sideVars, supVars, srvVars, connVars, hpc, payload, cmdDir, wrote, pipe,
                   pipeOpen, pump, collector, stdinPc, childStdin, waitErr, fileVars, cli>>

\* the deadline fires after the child has exited and before Wait has reaped it
DeadlineLate ==
    /\ deadline = "armed"
    /\ child.state = "exited"
    /\ deadline' = "late"
    /\ UNCHANGED <<sideVars, supVars, srvVars, connVars, hpc, payload, child, cmdDir, wrote,
                   pipe, pipeOpen, pump, collector, stdinPc, childStdin, waitErr, fileVars,
                   cli>>

(***************************************************************************)
(* limitedBuffer.Write (ipc_client.go)                                     *)
(***************************************************************************)
\* a buffer without a limit
UnlimitedWrite(buf, p, limit) == buf \o p

LimitedWrite(buf, p, limit) ==
    IF limit <= 0 THEN buf
    ELSE LET remaining == limit - Len(buf) IN
         IF remaining <= 0 THEN buf
         ELSE IF Len(p) > remaining THEN buf \o SubSeq(p, 1, remaining)
         ELSE buf \o p

(***************************************************************************)
(* Server.streamPipe                                                       *)
(***************************************************************************)
chunkPayload(data) == [Data |-> Base64Encode(data)]

\* reader.Read returned n > 0 bytes: collect them and, in stream mode, send them
StreamPipeChunk(s) ==
    /\ pump[s] = "run"
    /\ pipeOpen[s] /\ Len(pipe[s]) > 0
    /\ LET n == Min(ChunkSize, Len(pipe[s]))
           chunk == SubSeq(pipe[s], 1, n)
       IN  /\ pipe' = [pipe EXCEPT ![s] = SubSeq(@, n + 1, Len(@))]
           /\ collector' = [collector EXCEPT ![s] = LimitedWrite(@, chunk, BufLimit)]
           /\ s2c' = IF payload.Stream THEN Send(s2c, s, chunkPayload(chunk)) ELSE s2c
    /\ UNCHANGED <<sideVars, supVars, srvVars, connUp, connClosed, c2s, nsent, readDeadline,
                   hpc, payload, child, cmdDir, wrote, pipeOpen, pump, stdinPc, childStdin,
                   deadline, waitErr, fileVars, cli>>

\* reader.Read returned an error: end of file once the child has exited and
\* the pipe is drained, or "file already closed" once Wait has closed the
\* parent's end of the pipe
StreamPipeEnd(s) ==
    /\ pump[s] = "run"
    /\ \/ ~pipeOpen[s]
       \/ Len(pipe[s]) = 0 /\ child.state # "running"
    /\ pump' = [pump EXCEPT ![s] = "done"]
    /\ UNCHANGED <<sideVars, supVars, srvVars, connVars, hpc, payload, child, cmdDir, wrote,
                   pipe, pipeOpen, collector, stdinPc, childStdin, deadline, waitErr, fileVars,
                   cli>>

(***************************************************************************)
(* Server.consumeStdin                                                     *)
(***************************************************************************)
\* a stdin pump that writes each chunk before what it wrote earlier
ConsumeStdinFrameReversed ==
    /\ stdinPc = "run" /\ FrameReady
    /\ c2s' = Tail(c2s)
    /\ LET f == c2s[1] IN
       /\ stdinPc' = IF f.type \in {"stdin_chunk", "ping"} THEN "run" ELSE "done"
       /\ childStdin' =
            IF f.type = "stdin_chunk" /\ f.payload # BadPayload /\ child.state = "running"
               THEN Base64Decode(f.payload.Data) \o childStdin
            ELSE childStdin
       /\ s2c' = IF f.type = "ping" THEN Send(s2c, "pong", None) ELSE s2c
    /\ UNCHANGED <<sideVars, supVars, srvVars, connUp, connClosed, nsent, readDeadline, hpc,
                   payload, child, cmdDir, wrote, pipe, pipeOpen, pump, collector, deadline,
                   waitErr, fileVars, cli>>

ConsumeStdinFrame ==
    /\ stdinPc = "run" /\ FrameReady
    /\ c2s' = Tail(c2s)
    /\ LET f == c2s[1] IN
       /\ stdinPc' = IF f.type \in {"stdin_chunk", "ping"} THEN "run" ELSE "done"
       /\ childStdin' =
            IF f.type = "stdin_chunk" /\ f.payload # BadPayload /\ child.state = "running"
               THEN childStdin \o Base64Decode(f.payload.Data)
            ELSE childStdin
       /\ s2c' = IF f.type = "ping" THEN Send(s2c, "pong", None) ELSE s2c
    /\ UNCHANGED <<sideVars, supVars, srvVars, connUp, connClosed, nsent, readDeadline, hpc,
                   payload, child, cmdDir, wrote, pipe, pipeOpen, pump, collector, deadline,
                   waitErr, fileVars, cli>>

\* readFrame fails: the stream ended, the JSON is bad, or the read deadline
\* set by runExec has passed
ConsumeStdinReadError ==
    /\ stdinPc = "run"
    /\ ReadFails \/ readDeadline
    /\ stdinPc' = "done"
    /\ UNCHANGED <<sideVars, supVars, srvVars, connVars, hpc, payload, child, cmdDir, wrote,
                   pipe, pipeOpen, pump, collector, childStdin, deadline, waitErr, fileVars,
                   cli>>


(***************************************************************************)
(* Server.runExec, from command.Wait() to the result frame                 *)
(***************************************************************************)
\* a Wait that reports every exit as success
WaitResultsNoExitError(ch, dl) == {"nil"}

\* what command.Wait() returns: an *exec.ExitError for a non-zero or signal
\* exit; for a zero exit nil, or, when the deadline fired on the exited but
\* not yet reaped child, the context's error in the os/exec versions that
\* report it
WaitResults(ch, dl) ==
    IF ch.code # 0 THEN {"ExitError"}
    ELSE IF dl = "late" THEN {"nil", "context deadline exceeded"}
    ELSE {"nil"}

\* a runExec that sets no read deadline after Wait
RunExecWaitNoDeadline ==
    /\ hpc = "wait"
    /\ child.state = "exited"
    /\ child' = [child EXCEPT !.state = "waited"]
    /\ pipeOpen' = [s \in Streams |-> FALSE]
    /\ pipe' = [s \in Streams |-> <<>>]
    /\ \E e \in WaitResults(child, deadline) : waitErr' = e
    /\ hpc' = "join"
    /\ UNCHANGED <<sideVars, supVars, srvVars, connVars, payload, cmdDir, wrote, pump,
                   collector, stdinPc, childStdin, deadline, fileVars, cli>>

\* command.Wait() returns once the child has exited; it closes the parent's
\* ends of the pipes, what the pumps have not read is gone.  Then
\* conn.SetReadDeadline(time.Now()).
RunExecWait ==
    /\ hpc = "wait"
    /\ child.state = "exited"
    /\ child' = [child EXCEPT !.state = "waited"]
    /\ pipeOpen' = [s \in Streams |-> FALSE]
    /\ pipe' = [s \in Streams |-> <<>>]
    /\ \E e \in WaitResults(child, deadline) : waitErr' = e
    /\ readDeadline' = TRUE
    /\ hpc' = "join"
    /\ UNCHANGED <<sideVars, supVars, srvVars, connUp, connClosed, c2s, s2c, nsent, payload,
                   cmdDir, wrote, pump, collector, stdinPc, childStdin, deadline, fileVars,
                   cli>>

\* a join that does not wait for consumeStdin
JoinedPumpsOnly == \A s \in Streams : pump[s] = "done"

\* <-stdinDone and wg.Wait() have returned
Joined == stdinPc = "done" /\ \A s \in Streams : pump[s] = "done"

\* a result that always reports success
execResultPayloadZero(code, out, err) ==
    [ExitCode |-> 0, Stdout |-> Base64Encode(out), Stderr |-> Base64Encode(err)]

execResultPayload(code, out, err) ==
    [ExitCode |-> code, Stdout |-> Base64Encode(out), Stderr |-> Base64Encode(err)]

\* the exit code and the final frame: an error frame when Wait failed with
\* something other than an *exec.ExitError, the result frame otherwise
RunExecResult ==
    /\ hpc = "join"
    /\ Joined
    /\ s2c' = IF waitErr \in {"nil", "ExitError"}
                 THEN Send(s2c, "result",
                           execResultPayload(IF waitErr = "nil" THEN 0 ELSE child.code,
                                             collector["stdout"], collector["stderr"]))
              ELSE Send(s2c, "error", errorPayload(waitErr))
    /\ Return
    /\ UNCHANGED <<sideVars, supVars, srvVars, connUp, c2s, nsent, readDeadline, payload, execVars,
                   fileVars, cli>>

(***************************************************************************)
(* Server.handleFilePut                                                    *)
(***************************************************************************)
File(data) == [exists |-> TRUE, data |-> data]

Absent == [exists |-> FALSE, data |-> <<>>]

\* os.FileMode of an upload that names none (0o644)
defaultFileMode == 420

NoXfer == [written |-> 0, off |-> 0, sent |-> 0, mode |-> 0]

\* the file after os.OpenFile(path, O_CREATE|O_TRUNC|O_WRONLY, mode)
\* opened without O_TRUNC
OpenKeep(f) == File(f.data)

OpenTrunc(f) == File(<<>>)

\* the path check, MkdirAll and OpenFile; either may fail
HandleFilePutOpen ==
    /\ hpc = "filePut"
    /\ \E ok \in {b \in BOOLEAN : b => payload.Path # ""} :
         IF ok
            THEN /\ fs' = [fs EXCEPT ![payload.Path] = OpenTrunc(@)]
                 /\ xfer' = [NoXfer EXCEPT !.mode = IF payload.Mode = 0 THEN defaultFileMode
                                                    ELSE payload.Mode]
                 /\ hpc' = "putLoop"
                 /\ UNCHANGED <<s2c, connClosed>>
            ELSE /\ s2c' = Send(s2c, "error",
                                errorPayload(IF payload.Path = "" THEN "path is required"
                                             ELSE "open failed"))
                 /\ Return
                 /\ UNCHANGED <<fs, xfer>>
    /\ UNCHANGED <<sideVars, supVars, srvVars, connUp, c2s, nsent, readDeadline, payload,
                   execVars, cli>>

\* case frameTypeFilePutChunk: unmarshal, file.Write, written += n
HandleFilePutChunk ==
    /\ hpc = "putLoop" /\ FrameReady /\ c2s[1].type = "file_put_chunk"
    /\ c2s' = Tail(c2s)
    /\ IF c2s[1].payload = BadPayload
          THEN /\ s2c' = Send(s2c, "error", errorPayload("json: cannot unmarshal"))
               /\ Return
               /\ UNCHANGED <<fs, xfer>>
          ELSE LET data == Base64Decode(c2s[1].payload.Data) IN
               \E ok \in BOOLEAN :
                 IF ok \/ Len(data) = 0
                    THEN /\ fs' = [fs EXCEPT ![payload.Path].data = @ \o data]
                         /\ xfer' = [xfer EXCEPT !.written = @ + Len(data)]
                         /\ UNCHANGED <<s2c, hpc, connClosed>>
                    ELSE /\ \E k \in 0..(Len(data) - 1) :
                              fs' = [fs EXCEPT ![payload.Path].data = @ \o SubSeq(data, 1, k)]
                         /\ s2c' = Send(s2c, "error", errorPayload("write failed"))
                         /\ Return
                         /\ UNCHANGED xfer
    /\ UNCHANGED <<sideVars, supVars, srvVars, connUp, nsent, readDeadline, payload, execVars, cli>>

\* a result that reports no bytes
fileTransferResultPayloadZero(n, err) == [Bytes |-> 0, Error |-> err]

fileTransferResultPayload(n, err) == [Bytes |-> n, Error |-> err]

\* case frameTypeFilePutClose
HandleFilePutClose ==
    /\ hpc = "putLoop" /\ FrameReady /\ c2s[1].type = "file_put_close"
    /\ c2s' = Tail(c2s)
    /\ s2c' = Send(s2c, "file_put_result", fileTransferResultPayload(xfer.written, ""))
    /\ Return
    /\ UNCHANGED <<sideVars, supVars, srvVars, connUp, nsent, readDeadline, payload, execVars,
                   fileVars, cli>>

\* default: any other frame during the upload
HandleFilePutUnexpected ==
    /\ hpc = "putLoop" /\ FrameReady
    /\ c2s[1].type \notin {"file_put_chunk", "file_put_close"}
    /\ c2s' = Tail(c2s)
    /\ s2c' = Send(s2c, "error", errorPayload("unexpected frame during file upload"))
    /\ Return
    /\ UNCHANGED <<sideVars, supVars, srvVars, connUp, nsent, readDeadline, payload, execVars,
                   fileVars, cli>>

\* readFrame fails during the upload
HandleFilePutReadError ==
    /\ hpc = "putLoop" /\ ReadFails
    /\ s2c' = Send(s2c, "error", errorPayload("read failed"))
    /\ Return
    /\ UNCHANGED <<sideVars, supVars, srvVars, connUp, c2s, nsent, readDeadline, payload, execVars,
                   fileVars, cli>>


(***************************************************************************)
(* Server.handleFileGet                                                    *)
(***************************************************************************)
\* the path check and os.Open
HandleFileGetOpen ==
    /\ hpc = "fileGet"
    /\ \E ok \in {b \in BOOLEAN : b => (payload.Path # "" /\ fs[payload.Path].exists)} :
         IF ok
            THEN /\ xfer' = NoXfer
                 /\ hpc' = "getLoop"
                 /\ UNCHANGED <<s2c, connClosed>>
            ELSE /\ s2c' = Send(s2c, "error",
                                errorPayload(IF payload.Path = "" THEN "path is required"
                                             ELSE "open failed"))
                 /\ Return
                 /\ UNCHANGED xfer
    /\ UNCHANGED <<sideVars, supVars, srvVars, connUp, c2s, nsent, readDeadline, payload,
                   execVars, fs, cli>>

\* one file.Read of the loop: n > 0 bytes are sent as a chunk (the handler
\* returns if the send fails); at end of file the result frame is sent
HandleFileGetRead ==
    /\ hpc = "getLoop"
    /\ LET content == fs[payload.Path].data
           n == Min(ChunkSize, Len(content) - xfer.off)
           chunk == SubSeq(content, xfer.off + 1, xfer.off + n)
       IN  IF n > 0
              THEN /\ xfer' = [xfer EXCEPT !.off = @ + n, !.sent = @ + Len(chunk)]
                   /\ s2c' = Send(s2c, "file_get_chunk", chunkPayload(chunk))
                   /\ IF connUp THEN UNCHANGED <<hpc, connClosed>> ELSE Return
              ELSE /\ s2c' = Send(s2c, "file_get_result",
                                  fileTransferResultPayload(xfer.sent, ""))
                   /\ Return
                   /\ UNCHANGED xfer
    /\ UNCHANGED <<sideVars, supVars, srvVars, connUp, c2s, nsent, readDeadline, payload,
                   execVars, fs, cli>>

\* a read error reported without the bytes sent before it
HandleFileGetReadErrorNoCount ==
    /\ hpc = "getLoop"
    /\ s2c' = Send(s2c, "file_get_result", fileTransferResultPayload(0, "read failed"))
    /\ Return
    /\ UNCHANGED <<sideVars, supVars, srvVars, connUp, c2s, nsent, readDeadline, payload, execVars,
                   fileVars, cli>>

\* file.Read fails with an error other than io.EOF
HandleFileGetReadError ==
    /\ hpc = "getLoop"
    /\ s2c' = Send(s2c, "file_get_result", fileTransferResultPayload(xfer.sent, "read failed"))
    /\ Return
    /\ UNCHANGED <<sideVars, supVars, srvVars, connUp, c2s, nsent, readDeadline, payload, execVars,
                   fileVars, cli>>

ServerExec ==
    \/ RunExecValidate
    \/ RunExecStart
    \/ \E s \in Streams : ChildWrite(s)
    \/ ChildExit
    \/ DeadlineKill
    \/ DeadlineLate
    \/ \E s \in Streams : StreamPipeChunk(s)
    \/ \E s \in Streams : StreamPipeEnd(s)
    \/ ConsumeStdinFrame
    \/ ConsumeStdinReadError
    \/ RunExecWait
    \/ RunExecResult

ServerFile ==
    \/ HandleFilePutOpen
    \/ HandleFilePutChunk
    \/ HandleFilePutClose
    \/ HandleFilePutUnexpected
    \/ HandleFilePutReadError
    \/ HandleFileGetOpen
    \/ HandleFileGetRead
    \/ HandleFileGetReadError

(***************************************************************************)
(* Requests and configurations of the model                                *)
(***************************************************************************)

FilePaths == {"/r/f", "/o/f"}

execRequestPayload(path, args, wd, timeout, stream) ==
    [Path |-> path, Args |-> args, WorkingDir |-> wd, TimeoutMilli |-> timeout,
     Stream |-> stream]

\* TimeoutMilli of a request with a timeout
SomeTimeout == 100

\* exec requests of the connection model: one that passes the policies, with
\* and without streaming and a timeout, one with an argument outside the root,
\* one that runs an interpreter
ConnExecPayloads ==
    {execRequestPayload("cat", <<"f">>, "", t, st) : t \in {0, SomeTimeout}, st \in BOOLEAN}
    \cup {execRequestPayload("cat", <<"../o">>, "", 0, FALSE),
          execRequestPayload("python3", <<"s.py">>, "", 0, FALSE)}

\* payloads of the data frames a client writes
ClientChunks == {<<>>, <<6, 7>>}

\* the frames a client can write before it has written a request: to
\* handleConn every frame type but ping and the three requests is the same
\* "unsupported frame", which pong stands for
FirstFrames ==
    {Frame("ping", None), Frame(Malformed, None), Frame("pong", None),
     Frame("exec_request", BadPayload)}
    \cup {Frame("exec_request", pl) : pl \in ConnExecPayloads}
    \cup {Frame("file_put_request", [Path |-> pp, Mode |-> m]) :
             pp \in FilePaths \cup {""}, m \in {0, 384}}
    \cup {Frame("file_get_request", [Path |-> pp]) : pp \in FilePaths \cup {""}}

\* the frames a client can write after a request of the given kind: the
\* frames the handler of that request tells apart, pong standing for every
\* frame type its switch sends to default
LaterFrames(kind) ==
    {Frame("ping", None), Frame(Malformed, None), Frame("pong", None)}
    \cup IF kind = "exec_request"
            THEN {Frame("stdin_close", None), Frame("stdin_chunk", BadPayload)}
                 \cup {Frame("stdin_chunk", chunkPayload(d)) : d \in ClientChunks}
         ELSE IF kind = "file_put_request"
            THEN {Frame("file_put_close", None), Frame("file_put_chunk", BadPayload)}
                 \cup {Frame("file_put_chunk", chunkPayload(d)) : d \in ClientChunks}
         ELSE {}

\* the server configurations of the connection model
ConnConfigs ==
    {[rootDir |-> "/r", chroot |-> FALSE, allowInsecure |-> FALSE]}

\* the file systems the connection model starts from
InitialFiles ==
    {("/r/f" :> Absent) @@ ("/o/f" :> File(<<4, 5, 6>>))}

(***************************************************************************)
(* A client that writes any frames and may close the connection at any     *)
(* time                                                                    *)
(***************************************************************************)
Requests == {"exec_request", "file_put_request", "file_get_request"}

ClientSend ==
    /\ connUp /\ ~connClosed
    /\ nsent < MaxClientFrames
    /\ \E f \in IF cli = None THEN FirstFrames ELSE LaterFrames(cli.request) :
         /\ c2s' = Append(c2s, f)
         /\ cli' = IF cli = None /\ f.type \in Requests THEN [request |-> f.type] ELSE cli
    /\ nsent' = nsent + 1
    /\ UNCHANGED <<sideVars, supVars, srvVars, connUp, connClosed, s2c, readDeadline, hpc, payload,
                   execVars, fileVars>>

ClientClose ==
    /\ connUp
    /\ connUp' = FALSE
    /\ UNCHANGED <<sideVars, supVars, srvVars, connClosed, c2s, s2c, nsent, readDeadline, hpc,
                   payload, execVars, fileVars, cli>>

(***************************************************************************)
(* The connection model: NewServer, one accepted connection                *)
(***************************************************************************)
ConnInit ==
    /\ connUp = TRUE /\ connClosed = FALSE
    /\ c2s = <<>> /\ s2c = <<>> /\ nsent = 0
    /\ readDeadline = FALSE
    /\ payload = None
    /\ child = NoChild
    /\ cmdDir = ""
    /\ wrote = [s \in Streams |-> <<>>]
    /\ pipe = [s \in Streams |-> <<>>]
    /\ pipeOpen = [s \in Streams |-> TRUE]
    /\ pump = [s \in Streams |-> "idle"]
    /\ collector = [s \in Streams |-> <<>>]
    /\ stdinPc = "idle"
    /\ childStdin = <<>>
    /\ deadline = "none"
    /\ waitErr = "nil"
    /\ xfer = NoXfer

Init ==
    /\ \E c \in ConnConfigs :
         /\ rootDir = c.rootDir /\ chroot = c.chroot /\ allowInsecure = c.allowInsecure
    /\ fs \in InitialFiles
    /\ hpc = "idle"
    /\ ConnInit
    /\ SupIdle
    /\ cli = None

Next ==
    \/ HandleConnPing
    \/ HandleConnExecRequest
    \/ HandleConnFilePutRequest
    \/ HandleConnFileGetRequest
    \/ HandleConnUnsupported
    \/ HandleConnReadError
    \/ ServerExec
    \/ ServerFile
    \/ ClientSend
    \/ ClientClose

Spec == Init /\ [][Next]_vars

\* the goroutines of the handler are scheduled: the handler's own steps after
\* the child has exited, the pumps and consumeStdin when their read fails
Fairness ==
    /\ WF_vars(RunExecWait)
    /\ WF_vars(RunExecResult)
    /\ WF_vars(ConsumeStdinReadError)
    /\ \A s \in Streams : WF_vars(StreamPipeEnd(s))

SpecFair == Spec /\ Fairness

(***************************************************************************)
(* The policy model: runExec from its entry to command.Start(), for every  *)
(* request and server configuration of the sets below                      *)
(***************************************************************************)

\* most arguments of a request of the policy model
MaxArgs == 2

PolicyPaths ==
    {"cat", "/bin/cat", "bin/run", "../run", "sh/", "shred", "/usr/bin/gotool",
     "sh", "bash", "zsh", "ksh", "fish", "cmd", "cmd.exe", "powershell",
     "powershell.exe", "pwsh", "pwsh.exe", "/bin/bash", "/usr/bin/zsh",
     "python", "python2", "python3", "python3.11", "/usr/bin/python3",
     "node", "nodejs", "ruby", "irb", "php", "perl", "lua", "java", "javac",
     "go", "gofmt"}

PolicyArgs == {"-c", "x.sh", "-x.sh", "../o", "/o/f", "/r/f", "/rx"}

PolicyDirs == {"", "/r/d", "d", "/r/../o"}

PolicyArgLists == UNION {[1..n -> PolicyArgs] : n \in 0..MaxArgs}

\* rootDir, chrootExecutor != nil, allowInsecure: NewServer builds a chroot
\* executor only with a root directory
PolicyConfigs ==
    {c \in [rootDir : {"", "/r"}, chroot : BOOLEAN, allowInsecure : BOOLEAN] :
        c.chroot => c.rootDir # ""}

PolicyInit ==
    /\ SupIdle
    /\ \E c \in PolicyConfigs :
         /\ rootDir = c.rootDir /\ chroot = c.chroot /\ allowInsecure = c.allowInsecure
    /\ fs \in InitialFiles
    /\ hpc = "runExec"
    /\ connUp = TRUE /\ connClosed = FALSE
    /\ c2s = <<>> /\ s2c = <<>> /\ nsent = 1
    /\ readDeadline = FALSE
    /\ \E path \in PolicyPaths, args \in PolicyArgLists, wd \in PolicyDirs :
         payload = execRequestPayload(path, args, wd, 0, FALSE)
    /\ child = NoChild
    /\ cmdDir = ""
    /\ wrote = [s \in Streams |-> <<>>]
    /\ pipe = [s \in Streams |-> <<>>]
    /\ pipeOpen = [s \in Streams |-> TRUE]
    /\ pump = [s \in Streams |-> "idle"]
    /\ collector = [s \in Streams |-> <<>>]
    /\ stdinPc = "idle"
    /\ childStdin = <<>>
    /\ deadline = "none"
    /\ waitErr = "nil"
    /\ xfer = NoXfer
    /\ cli = [request |-> "exec_request"]

PolicyNext ==
    \/ RunExecValidate
    \/ RunExecStart

SpecPolicy == PolicyInit /\ [][PolicyNext]_vars

(***************************************************************************)
(* IPCClient.ExecStream: sendExecRequest, pipeStdin, forwardStream, the    *)
(* caller receiving from the channels of the CommandStream                 *)
(***************************************************************************)
\* capacity of the Stdout and Stderr channels of the modelled client
ChanCap == 1

\* cmd.Stdin of the modelled request, which has a timeout
StreamStdin == {<<6>>}

\* time.Millisecond, a time.Duration being a number of nanoseconds
Millisecond == 1000000

\* Duration.Milliseconds(): the whole milliseconds of a duration
Milliseconds(d) == d \div Millisecond

\* sendExecRequest: the timeout_ms of the request for a Command.Timeout
TimeoutMilli(timeout) == IF timeout > 0 THEN Milliseconds(timeout) ELSE 0

\* writer.send of the client: it fails once either side has closed
ClientSendFails == ~connUp \/ connClosed

ClientWrite(log, typ, pl) == IF ClientSendFails THEN log ELSE Append(log, Frame(typ, pl))

\* ExecStream up to its return: dial, the exec_request with Stream set, and
\* the start of pipeStdin and forwardStream
ExecStreamSend ==
    /\ cli.pc = "ExecStream"
    /\ c2s' = ClientWrite(c2s, "exec_request",
                          execRequestPayload("cat", <<"f">>, "",
                                             TimeoutMilli(cli.timeout), TRUE))
    /\ cli' = [cli EXCEPT !.pc = "streaming", !.stdinPc = "run", !.fwd = "run"]
    /\ UNCHANGED <<sideVars, supVars, srvVars, connUp, connClosed, s2c, nsent, readDeadline,
                   hpc, payload, execVars, fileVars>>

\* one turn of the loop of pipeStdin (a nil reader is an empty one): a
\* cancelled context or the end of the reader sends stdin_close and returns, a
\* read sends a chunk and returns if the send fails
PipeStdin ==
    /\ cli.stdinPc = "run"
    /\ IF cli.ctx = "cancelled" \/ cli.stdin = <<>>
          THEN /\ c2s' = ClientWrite(c2s, "stdin_close", None)
               /\ cli' = [cli EXCEPT !.stdinPc = "done"]
          ELSE \E n \in 1..Min(ClientChunkSize, Len(cli.stdin)) :
                 /\ c2s' = ClientWrite(c2s, "stdin_chunk",
                                       chunkPayload(SubSeq(cli.stdin, 1, n)))
                 /\ cli' = [cli EXCEPT
                              !.stdin = SubSeq(@, n + 1, Len(@)),
                              !.stdinPc = IF ClientSendFails THEN "done" ELSE "run"]
    /\ UNCHANGED <<sideVars, supVars, srvVars, connUp, connClosed, s2c, nsent, readDeadline,
                   hpc, payload, execVars, fileVars>>

\* the CommandResult forwardStream reports for a failure
execErrorExitCode == -1

\* a synthesized result that reports success
ErrorResultZero(msg) == [ExitCode |-> 0, Stdout |-> <<>>, Stderr |-> <<>>, Text |-> msg]

\* Stderr of a CommandResult is bytes: those of a child's stderr are Stderr,
\* and Text is the message a synthesized result carries as its Stderr
ErrorResult(msg) ==
    [ExitCode |-> execErrorExitCode, Stdout |-> <<>>, Stderr |-> <<>>, Text |-> msg]

\* execResultPayload.toCommandResult
toCommandResult(pl) ==
    [ExitCode |-> pl.ExitCode, Stdout |-> Base64Decode(pl.Stdout),
     Stderr |-> Base64Decode(pl.Stderr), Text |-> <<>>]

\* the channels the deferred calls of forwardStream close when it returns, in
\* the order they are closed
DeferredCloses == <<"Done", "Stderr", "Stdout">>

\* the select after the switch of forwardStream
AfterFrame(c) ==
    IF c.ctx = "cancelled"
       THEN [c EXCEPT !.done = <<ErrorResult(<<"context canceled">>)>>,
                      !.fwd = "done", !.closed = DeferredCloses]
    ELSE c

\* forwardStream reads one frame: a chunk goes to the channel of its stream
\* (or, the context cancelled, the task returns), a result or an error ends
\* the task with a value on Done, any other frame is passed over
ForwardStreamFrame ==
    /\ cli.fwd = "run"
    /\ cli.read < Len(s2c)
    /\ LET f == s2c[cli.read + 1]
           c == [cli EXCEPT !.read = @ + 1]
       IN  IF f.type \in Streams
              THEN \/ /\ Len(cli.ch[f.type]) < ChanCap
                      /\ cli' = AfterFrame([c EXCEPT !.ch[f.type] =
                                              Append(@, Base64Decode(f.payload.Data))])
                   \/ /\ cli.ctx = "cancelled"
                      /\ cli' = [c EXCEPT !.fwd = "done", !.closed = DeferredCloses]
           ELSE IF f.type = "result"
              THEN cli' = [c EXCEPT !.done = <<toCommandResult(f.payload)>>,
                                    !.fwd = "done", !.closed = DeferredCloses]
           ELSE IF f.type = "error"
              THEN cli' = [c EXCEPT !.done = <<ErrorResult(f.payload.Message)>>,
                                    !.fwd = "done", !.closed = DeferredCloses]
           ELSE cli' = AfterFrame(c)
    /\ UNCHANGED <<sideVars, supVars, srvVars, connVars, hpc, payload, execVars, fileVars>>

\* readFrame fails in forwardStream: the server has closed and every frame is
\* read, or the client has closed the connection
ForwardStreamReadError ==
    /\ cli.fwd = "run"
    /\ \/ connClosed /\ cli.read = Len(s2c)
       \/ ~connUp
    /\ cli' = [cli EXCEPT !.done = <<ErrorResult(<<"read failed">>)>>,
                          !.fwd = "done", !.closed = DeferredCloses]
    /\ UNCHANGED <<sideVars, supVars, srvVars, connVars, hpc, payload, execVars, fileVars>>

\* the caller receives a chunk from the Stdout or the Stderr channel
StreamReceive(s) ==
    /\ cli.pc = "streaming"
    /\ Len(cli.ch[s]) > 0
    /\ cli' = [cli EXCEPT !.got[s] = @ \o Head(cli.ch[s]), !.ch[s] = Tail(@)]
    /\ UNCHANGED <<sideVars, supVars, srvVars, connVars, hpc, payload, execVars, fileVars>>

\* most calls of Cancel on one stream
MaxCancels == 2

\* a Cancel that cancels the context and leaves the connection open
StreamCancelContextOnly ==
    /\ cli.pc = "streaming" /\ cli.cancels < MaxCancels
    /\ cli' = [cli EXCEPT !.ctx = "cancelled", !.cancels = @ + 1]
    /\ UNCHANGED <<sideVars, supVars, srvVars, connVars, hpc, payload, execVars, fileVars>>

\* CommandStream.Cancel: cancel() and conn.Close(), any number of times
StreamCancel ==
    /\ cli.pc = "streaming" /\ cli.cancels < MaxCancels
    /\ cli' = [cli EXCEPT !.ctx = "cancelled", !.cancels = @ + 1]
    /\ connUp' = FALSE
    /\ UNCHANGED <<sideVars, supVars, srvVars, connClosed, c2s, s2c, nsent, readDeadline, hpc,
                   payload, execVars, fileVars>>

\* the goroutine of closeOnContext(streamCtx, conn) is still in its receive
\* from ctx.Done(): nothing but the cancellation of the context ends it
WatcherWaiting == cli.pc = "streaming" /\ cli.ctx = "live"

\* the goroutine of containerImpl.ExecStream: what it places on the Done of
\* the container's Stream once the receive from the agent's Done returns, the
\* Result copied from the value received, or nil when the channel was closed
\* without a value
ContainerDone ==
    IF cli.done # <<>>
       THEN <<[nil |-> FALSE, ExitCode |-> cli.done[1].ExitCode]>>
    ELSE IF \E i \in 1..Len(cli.closed) : cli.closed[i] = "Done"
       THEN <<[nil |-> TRUE, ExitCode |-> 0]>>
    ELSE <<>>

StreamInit ==
    /\ \E c \in ConnConfigs :
         /\ rootDir = c.rootDir /\ chroot = c.chroot /\ allowInsecure = c.allowInsecure
    /\ fs \in InitialFiles
    /\ hpc = "idle"
    /\ ConnInit
    /\ SupIdle
    /\ \E in \in StreamStdin :
         cli = [pc |-> "ExecStream", timeout |-> SomeTimeout * Millisecond, stdin |-> in,
                stdinPc |-> "idle",
                ctx |-> "live", fwd |-> "idle", read |-> 0,
                ch |-> [s \in Streams |-> <<>>], got |-> [s \in Streams |-> <<>>],
                done |-> <<>>, closed |-> <<>>, cancels |-> 0]

StreamNext ==
    \/ ExecStreamSend
    \/ PipeStdin
    \/ ForwardStreamFrame
    \/ ForwardStreamReadError
    \/ \E s \in Streams : StreamReceive(s)
    \/ StreamCancel
    \/ HandleConnExecRequest
    \/ ServerExec

SpecStream == StreamInit /\ [][StreamNext]_vars

\* the forwarding task is scheduled: a read that fails returns
StreamFairness == WF_vars(ForwardStreamReadError)

SpecStreamFair == SpecStream /\ StreamFairness

(***************************************************************************)
(* IPCClient.CopyTo and then IPCClient.CopyFrom of the same path, each on  *)
(* a connection of its own to the same server                              *)
(***************************************************************************)
\* most bytes of the copied file
MaxFile == 3

\* byte values of the copied file
FileBytes == {0, 77, 255}

CopyFiles == UNION {[1..n -> FileBytes] : n \in 0..MaxFile}

\* CopyTo: dial and the file_put_request
CopyToRequest ==
    /\ cli.pc = "CopyTo"
    /\ c2s' = ClientWrite(c2s, "file_put_request",
                          [Path |-> cli.path, Mode |-> defaultFileMode])
    /\ cli' = [cli EXCEPT !.pc = "putChunks"]
    /\ UNCHANGED <<sideVars, supVars, srvVars, connUp, connClosed, s2c, nsent, readDeadline,
                   hpc, payload, execVars, fileVars>>

\* the client gives up: its deferred conn.Close() runs
CopyFailed(c) == [c EXCEPT !.pc = "failed"]

\* one reader.Read of n > 0 bytes and the file_put_chunk for them
CopyToChunk ==
    /\ cli.pc = "putChunks"
    /\ cli.off < Len(cli.F)
    /\ \E n \in 1..Min(ClientChunkSize, Len(cli.F) - cli.off) :
         /\ c2s' = ClientWrite(c2s, "file_put_chunk",
                               chunkPayload(SubSeq(cli.F, cli.off + 1, cli.off + n)))
         /\ IF ClientSendFails
               THEN cli' = CopyFailed(cli) /\ connUp' = FALSE
               ELSE cli' = [cli EXCEPT !.off = @ + n] /\ UNCHANGED connUp
    /\ UNCHANGED <<sideVars, supVars, srvVars, connClosed, s2c, nsent, readDeadline, hpc, payload,
                   execVars, fileVars>>

\* the reader is at its end: file_put_close
CopyToClose ==
    /\ cli.pc = "putChunks"
    /\ cli.off = Len(cli.F)
    /\ c2s' = ClientWrite(c2s, "file_put_close", None)
    /\ IF ClientSendFails
          THEN cli' = CopyFailed(cli) /\ connUp' = FALSE
          ELSE cli' = [cli EXCEPT !.pc = "putResult"] /\ UNCHANGED connUp
    /\ UNCHANGED <<sideVars, supVars, srvVars, connClosed, s2c, nsent, readDeadline, hpc, payload,
                   execVars, fileVars>>

\* readFileTransferResult: the first frame the server wrote decides; CopyTo
\* returns nil for a file_put_result without an error
CopyToResult ==
    /\ cli.pc = "putResult"
    /\ \/ /\ cli.read < Len(s2c)
          /\ LET f == s2c[cli.read + 1] IN
             IF f.type = "file_put_result" /\ f.payload.Error = ""
                THEN cli' = [cli EXCEPT !.put = f.payload, !.pc = "CopyFrom"]
             ELSE cli' = CopyFailed(cli)
       \/ /\ cli.read = Len(s2c) /\ connClosed
          /\ cli' = CopyFailed(cli)
    /\ connUp' = FALSE
    /\ UNCHANGED <<sideVars, supVars, srvVars, connClosed, c2s, s2c, nsent, readDeadline, hpc,
                   payload, execVars, fileVars>>

\* CopyFrom: dial, a connection of its own with a handler of its own, and the
\* file_get_request
CopyFromRequest ==
    /\ cli.pc = "CopyFrom"
    /\ hpc = "closed"
    /\ connUp' = TRUE /\ connClosed' = FALSE
    /\ hpc' = "idle"
    /\ payload' = None
    /\ xfer' = NoXfer
    /\ s2c' = <<>>
    /\ c2s' = <<Frame("file_get_request", [Path |-> cli.path])>>
    /\ cli' = [cli EXCEPT !.pc = "getFrames", !.read = 0]
    /\ UNCHANGED <<sideVars, supVars, srvVars, nsent, readDeadline, execVars, fs>>

\* one frame of the loop of CopyFrom: a chunk is written to the writer, a
\* file_get_result without an error returns nil, anything else is an error
CopyFromFrame ==
    /\ cli.pc = "getFrames"
    /\ cli.read < Len(s2c)
    /\ LET f == s2c[cli.read + 1]
           c == [cli EXCEPT !.read = @ + 1]
       IN  IF f.type = "file_get_chunk"
              THEN /\ cli' = [c EXCEPT !.sink = @ \o Base64Decode(f.payload.Data)]
                   /\ UNCHANGED connUp
           ELSE IF f.type = "file_get_result" /\ f.payload.Error = ""
              THEN /\ cli' = [c EXCEPT !.get = f.payload, !.pc = "done"]
                   /\ connUp' = FALSE
           ELSE /\ cli' = CopyFailed(c)
                /\ connUp' = FALSE
    /\ UNCHANGED <<sideVars, supVars, srvVars, connClosed, c2s, s2c, nsent, readDeadline, hpc,
                   payload, execVars, fileVars>>

CopyInit ==
    /\ \E c \in ConnConfigs :
         /\ rootDir = c.rootDir /\ chroot = c.chroot /\ allowInsecure = c.allowInsecure
    /\ fs \in InitialFiles
    /\ hpc = "idle"
    /\ ConnInit
    /\ SupIdle
    /\ \E F \in CopyFiles, pp \in FilePaths :
         cli = [pc |-> "CopyTo", F |-> F, path |-> pp, off |-> 0, read |-> 0,
                sink |-> <<>>, put |-> None, get |-> None]

CopyNext ==
    \/ CopyToRequest
    \/ CopyToChunk
    \/ CopyToClose
    \/ CopyToResult
    \/ CopyFromRequest
    \/ CopyFromFrame
    \/ HandleConnFilePutRequest
    \/ HandleConnFileGetRequest
    \/ HandleFilePutOpen
    \/ HandleFilePutChunk
    \/ HandleFilePutClose
    \/ HandleFileGetOpen
    \/ HandleFileGetRead
    \/ HandleFileGetReadError

SpecCopy == CopyInit /\ [][CopyNext]_vars

(***************************************************************************)
(* IPCClient.Exec: dial, closeOnContext, sendExecRequest, pipeStdin and    *)
(* readExecResult, against the server                                      *)
(***************************************************************************)
\* cap of the buffers of readExecResult
maxResultBytes == 4194304

\* the commands of the modelled calls, as the request they are sent as but
\* for its timeout_ms: one that passes the policies, one with an argument
\* outside the root
ExecCalls ==
    {execRequestPayload("cat", <<"f">>, "", 0, FALSE),
     execRequestPayload("cat", <<"../o">>, "", 0, FALSE)}

\* Command.Timeout of the modelled calls: none, half a millisecond, and the
\* duration of SomeTimeout milliseconds
ExecTimeouts == {0, Millisecond \div 2, SomeTimeout * Millisecond}

\* what Exec returns: a *CommandResult or nil, and an error or nil
Returned(result, err) == [result |-> result, err |-> err]

\* c.dial(ctx): the dialer may fail
ExecDial ==
    /\ cli.pc = "Exec"
    /\ \/ /\ cli' = [cli EXCEPT !.pc = "dialed"]
          /\ UNCHANGED connUp
       \/ /\ cli' = [cli EXCEPT !.pc = "returned", !.ret = Returned(None, "dial")]
          /\ connUp' = FALSE
    /\ UNCHANGED <<sideVars, supVars, srvVars, connClosed, c2s, s2c, nsent, readDeadline, hpc,
                   payload, execVars, fileVars>>

\* the task of closeOnContext: it closes the connection once the context is done
CloseOnContext ==
    /\ cli.pc \in {"dialed", "reading"}
    /\ cli.ctx = "cancelled" /\ connUp
    /\ connUp' = FALSE
    /\ UNCHANGED <<sideVars, supVars, srvVars, connClosed, c2s, s2c, nsent, readDeadline, hpc,
                   payload, execVars, fileVars, cli>>

\* the caller cancels the context of the call
ExecCancel ==
    /\ cli.pc # "returned" /\ cli.ctx = "live"
    /\ cli' = [cli EXCEPT !.ctx = "cancelled"]
    /\ UNCHANGED <<sideVars, supVars, srvVars, connVars, hpc, payload, execVars, fileVars>>

\* sendExecRequest: a failed write returns the error, the deferred conn.Close()
\* runs; after the write pipeStdin is started
ExecSendRequest ==
    /\ cli.pc = "dialed"
    /\ IF ClientSendFails
          THEN /\ cli' = [cli EXCEPT !.pc = "returned", !.ret = Returned(None, "write")]
               /\ connUp' = FALSE
               /\ UNCHANGED c2s
       ELSE /\ c2s' = Append(c2s, Frame("exec_request",
                                       [cli.req EXCEPT !.TimeoutMilli =
                                                          TimeoutMilli(cli.timeout)]))
            /\ cli' = [cli EXCEPT !.pc = "reading", !.stdinPc = "run"]
            /\ UNCHANGED connUp
    /\ UNCHANGED <<sideVars, supVars, srvVars, connClosed, s2c, nsent, readDeadline, hpc, payload,
                   execVars, fileVars>>

\* the result of readExecResult for a result frame: an empty Stdout or Stderr
\* is taken from the buffer of the chunks read
ResultWithBuffers(pl, bufs) ==
    [ExitCode |-> pl.ExitCode,
     Stdout |-> IF Len(pl.Stdout) = 0 THEN Base64Encode(bufs["stdout"]) ELSE pl.Stdout,
     Stderr |-> IF Len(pl.Stderr) = 0 THEN Base64Encode(bufs["stderr"]) ELSE pl.Stderr]

\* readExecResult reads one frame: a chunk is buffered, a result or an error
\* frame returns a CommandResult and a nil error, after any other frame a
\* context that is done returns its error
ReadExecResultFrame ==
    /\ cli.pc = "reading"
    /\ connUp
    /\ cli.read < Len(s2c)
    /\ LET f == s2c[cli.read + 1]
           c == [cli EXCEPT !.read = @ + 1]
       IN  IF f.type = "result"
              THEN /\ cli' = [c EXCEPT !.pc = "returned",
                                 !.ret = Returned(toCommandResult(
                                                ResultWithBuffers(f.payload, cli.bufs)), "nil")]
                   /\ connUp' = FALSE
           ELSE IF f.type = "error"
              THEN /\ cli' = [c EXCEPT !.pc = "returned",
                                 !.ret = Returned(ErrorResult(f.payload.Message), "nil")]
                   /\ connUp' = FALSE
           ELSE LET b == IF f.type \in Streams
                            THEN [c EXCEPT !.bufs[f.type] =
                                    LimitedWrite(@, Base64Decode(f.payload.Data),
                                                 maxResultBytes)]
                         ELSE c
                IN  IF cli.ctx = "cancelled"
                       THEN /\ cli' = [b EXCEPT !.pc = "returned",
                                          !.ret = Returned(None, "context canceled")]
                            /\ connUp' = FALSE
                    ELSE /\ cli' = b
                         /\ UNCHANGED connUp
    /\ UNCHANGED <<sideVars, supVars, srvVars, connClosed, c2s, s2c, nsent, readDeadline, hpc,
                   payload, execVars, fileVars>>

\* readFrame fails in readExecResult: the server has closed and every frame
\* is read, or closeOnContext has closed the connection
ReadExecResultReadError ==
    /\ cli.pc = "reading"
    /\ \/ connClosed /\ cli.read = Len(s2c)
       \/ ~connUp
    /\ cli' = [cli EXCEPT !.pc = "returned", !.ret = Returned(None, "read")]
    /\ connUp' = FALSE
    /\ UNCHANGED <<sideVars, supVars, srvVars, connClosed, c2s, s2c, nsent, readDeadline, hpc,
                   payload, execVars, fileVars>>

ExecInit ==
    /\ \E c \in ConnConfigs :
         /\ rootDir = c.rootDir /\ chroot = c.chroot /\ allowInsecure = c.allowInsecure
    /\ fs \in InitialFiles
    /\ hpc = "idle"
    /\ ConnInit
    /\ SupIdle
    /\ \E req \in ExecCalls, in \in StreamStdin, d \in ExecTimeouts :
         cli = [pc |-> "Exec", req |-> req, timeout |-> d, request |-> "exec_request",
                stdin |-> in,
                stdinPc |-> "idle", ctx |-> "live", read |-> 0,
                bufs |-> [s \in Streams |-> <<>>], ret |-> None]

ExecNext ==
    \/ ExecDial
    \/ CloseOnContext
    \/ ExecCancel
    \/ ExecSendRequest
    \/ PipeStdin
    \/ ReadExecResultFrame
    \/ ReadExecResultReadError
    \/ HandleConnExecRequest
    \/ ServerExec

SpecExec == ExecInit /\ [][ExecNext]_vars

(***************************************************************************)
(* The stdin model: one exec request without a timeout, whose child writes *)
(* nothing, and a client that then writes stdin frames and pings and may   *)
(* close at any time                                                       *)
(***************************************************************************)
\* most frames the client writes after the request
MaxStdinFrames == 3

\* payloads of the stdin chunks
StdinChunks == {<<1>>, <<2, 3>>}

StdinFrames ==
    {Frame("stdin_chunk", chunkPayload(d)) : d \in StdinChunks}
    \cup {Frame("stdin_chunk", BadPayload), Frame("ping", None),
          Frame("stdin_close", None), Frame("pong", None)}

\* the client writes the request, then a stdin frame; cli.sent records the
\* frames written after the request
StdinClientSend ==
    /\ connUp /\ ~connClosed
    /\ IF nsent = 0
          THEN /\ c2s' = Append(c2s, Frame("exec_request",
                                           execRequestPayload("cat", <<"f">>, "", 0, FALSE)))
               /\ UNCHANGED cli
       ELSE /\ Len(cli.sent) < MaxStdinFrames
            /\ \E f \in StdinFrames :
                 /\ c2s' = Append(c2s, f)
                 /\ cli' = [cli EXCEPT !.sent = Append(@, f)]
    /\ nsent' = nsent + 1
    /\ UNCHANGED <<sideVars, supVars, srvVars, connUp, connClosed, s2c, readDeadline, hpc, payload,
                   execVars, fileVars>>

StdinInit ==
    /\ \E c \in ConnConfigs :
         /\ rootDir = c.rootDir /\ chroot = c.chroot /\ allowInsecure = c.allowInsecure
    /\ fs \in InitialFiles
    /\ hpc = "idle"
    /\ ConnInit
    /\ SupIdle
    /\ cli = [request |-> "exec_request", sent |-> <<>>]

StdinNext ==
    \/ StdinClientSend
    \/ ClientClose
    \/ HandleConnExecRequest
    \/ RunExecValidate
    \/ RunExecStart
    \/ ChildExit
    \/ \E s \in Streams : StreamPipeEnd(s)
    \/ ConsumeStdinFrame
    \/ ConsumeStdinReadError
    \/ RunExecWait
    \/ RunExecResult

SpecStdin == StdinInit /\ [][StdinNext]_vars

(***************************************************************************)
(* AgentManager.Start and Stop, the exit monitor started by Start, and the *)
(* daemons (cmd/agentd) of the socket path                                 *)
(***************************************************************************)
agentVars == <<sideVars, srvVars, connVars, hpc, payload, execVars, fileVars, cli>>

\* states of a process that has not exited: agentd before net.Listen, with
\* its accept loop running, with its accept loop ended by an error, and from
\* the receive on sigCh on
Alive == {"starting", "serving", "deaf", "terminating"}

\* a process after SIGKILL
Killed(pr) ==
    IF pr.state \in Alive THEN [pr EXCEPT !.state = "dead", !.sig = "KILL", !.exit = "signal"]
    ELSE pr

\* a process after SIGTERM or SIGINT: agentd past signal.Notify goes on to
\* shut down, agentd before it is terminated by the signal
Signalled(pr) ==
    IF pr.state \in {"serving", "deaf"}
       THEN [pr EXCEPT !.state = "terminating", !.sig = "TERM"]
    ELSE IF pr.state = "starting"
       THEN [pr EXCEPT !.state = "dead", !.sig = "TERM", !.exit = "signal"]
    ELSE pr

\* a Start that takes the manager for stopped whatever am.running says
NeverRunning == FALSE

\* if am.running
AlreadyRunning == am.running

\* a ping that always fails
NeverListening == FALSE

\* isAgentRunning: the dial and the Ping succeed when a daemon listens on
\* the socket path
Listening == sock.listener # NoProc

\* the socket path after os.Remove: whoever listened on it is out of reach
RemoveSocket == [file |-> FALSE, listener |-> NoProc]

\* the socket path after process p has exited without closing its listener
SockAfterDeath(p) == IF sock.listener = p THEN [sock EXCEPT !.listener = NoProc] ELSE sock

\* a call of caller c returns r: the deferred am.mu.Unlock() runs
Returns(c, op, r) ==
    call' = [call EXCEPT ![c] = [pc |-> "idle", op |-> op,
                                 done |-> Append(@.done, [op |-> op, ret |-> r])]]

\* Start from am.mu.Lock() to cmd.Start(): a running manager returns nil; a
\* ping that succeeds marks it running and returns nil; otherwise the socket
\* file is removed and MkdirAll or cmd.Start() fails, or a daemon is spawned
\* and Start goes on to wait for the socket, the mutex held
StartBegin(c) ==
    /\ call[c].pc = "idle" /\ Len(call[c].done) < MaxCalls
    /\ am.mu = NoProc
    /\ IF AlreadyRunning
          THEN /\ Returns(c, "Start", "nil")
               /\ UNCHANGED <<am, procs, sock>>
       ELSE IF Listening
          THEN /\ am' = [am EXCEPT !.running = TRUE, !.reused = TRUE]
               /\ Returns(c, "Start", "nil")
               /\ UNCHANGED <<procs, sock>>
       ELSE /\ sock' = RemoveSocket
            /\ \/ /\ Returns(c, "Start", "create socket directory")
                  /\ UNCHANGED <<am, procs>>
               \/ /\ am' = [am EXCEPT !.cmd = NoProc]
                  /\ Returns(c, "Start", "start agent")
                  /\ UNCHANGED procs
               \/ /\ \E p \in Spawned : procs[p].state = "none"
                  /\ LET p == CHOOSE q \in Spawned :
                                 /\ procs[q].state = "none"
                                 /\ \A r \in Spawned : procs[r].state = "none" => q <= r
                     IN  /\ procs' = [procs EXCEPT ![p].state = "starting"]
                         /\ am' = [am EXCEPT !.cmd = p, !.mu = c]
                  /\ call' = [call EXCEPT ![c].pc = "waitSocket", ![c].op = "Start"]
    /\ UNCHANGED agentVars

\* waitForSocket finds the socket file and a daemon that answers: running is
\* set, the exit monitor of the spawned process is started, Start returns nil
StartSocketReady(c) ==
    /\ call[c].pc = "waitSocket"
    /\ sock.file /\ Listening
    /\ am' = [am EXCEPT !.running = TRUE, !.mu = NoProc, !.reused = FALSE]
    /\ procs' = [procs EXCEPT ![am.cmd].monitor = "waiting"]
    /\ Returns(c, "Start", "nil")
    /\ UNCHANGED <<sock, agentVars>>

\* waitForSocket times out: the spawned process is killed, Start returns the
\* error
StartSocketTimeout(c) ==
    /\ call[c].pc = "waitSocket"
    /\ procs' = [procs EXCEPT ![am.cmd] = Killed(@)]
    /\ sock' = SockAfterDeath(am.cmd)
    /\ am' = [am EXCEPT !.mu = NoProc]
    /\ Returns(c, "Start", "agent socket not ready")
    /\ UNCHANGED agentVars

\* Stop from am.mu.Lock() to the signal: nothing to do without a running
\* manager or a process; otherwise SIGTERM to the process group, and Stop goes
\* on to wait for the process, the mutex held
StopBegin(c) ==
    /\ call[c].pc = "idle" /\ Len(call[c].done) < MaxCalls
    /\ am.mu = NoProc
    /\ IF ~am.running \/ am.cmd = NoProc
          THEN /\ Returns(c, "Stop", "nil")
               /\ UNCHANGED <<am, procs>>
       ELSE /\ procs' = [procs EXCEPT ![am.cmd] = Signalled(@)]
            /\ am' = [am EXCEPT !.mu = c]
            /\ call' = [call EXCEPT ![c].pc = "stopWait", ![c].op = "Stop"]
    /\ UNCHANGED <<sock, agentVars>>

\* the grace period of Stop is over and the process has not exited: SIGKILL
StopKill(c) ==
    /\ call[c].pc = "stopWait"
    /\ procs[am.cmd].state \in Alive
    /\ procs' = [procs EXCEPT ![am.cmd] = Killed(@)]
    /\ sock' = SockAfterDeath(am.cmd)
    /\ UNCHANGED <<am, call, agentVars>>

\* the process has exited: running is cleared, the socket file removed, Stop
\* returns nil
StopDone(c) ==
    /\ call[c].pc = "stopWait"
    /\ procs[am.cmd].state = "dead"
    /\ am' = [am EXCEPT !.running = FALSE, !.mu = NoProc]
    /\ sock' = RemoveSocket
    /\ Returns(c, "Stop", "nil")
    /\ UNCHANGED <<procs, agentVars>>

\* agentd: os.Remove of the socket path and net.Listen on it
DaemonListen(p) ==
    /\ procs[p].state = "starting"
    /\ procs' = [procs EXCEPT ![p].state = "serving"]
    /\ sock' = [file |-> TRUE, listener |-> p]
    /\ UNCHANGED <<am, call, agentVars>>

\* agentd after SIGTERM: it closes its listeners, removes the socket path and
\* exits
DaemonTerminate(p) ==
    /\ procs[p].state = "terminating"
    /\ procs' = [procs EXCEPT ![p].state = "dead", ![p].exit = "0"]
    /\ sock' = RemoveSocket
    /\ UNCHANGED <<am, call, agentVars>>

\* a daemon is killed from outside: it exits without cleaning up
DaemonExit(p) ==
    /\ procs[p].state \in Alive
    /\ procs' = [procs EXCEPT ![p].state = "dead", ![p].exit = "signal"]
    /\ sock' = SockAfterDeath(p)
    /\ UNCHANGED <<am, call, agentVars>>

\* somebody else starts a daemon on the socket path while nobody listens on it
ExternalStart ==
    /\ procs[External].state = "none"
    /\ ~Listening
    /\ procs' = [procs EXCEPT ![External].state = "serving"]
    /\ sock' = [file |-> TRUE, listener |-> External]
    /\ UNCHANGED <<am, call, agentVars>>

\* the goroutine started by Start: cmd.Wait() has returned, and under am.mu
\* running is cleared
ExitMonitor(p) ==
    /\ procs[p].monitor = "waiting"
    /\ procs[p].state = "dead"
    /\ am.mu = NoProc
    /\ am' = [am EXCEPT !.running = FALSE]
    /\ procs' = [procs EXCEPT ![p].monitor = "done"]
    /\ UNCHANGED <<sock, call, agentVars>>

\* a new AgentManager; on its socket path nothing, a stale socket file, or a
\* daemon started by somebody else
SupInit ==
    /\ \E c \in ConnConfigs :
         /\ rootDir = c.rootDir /\ chroot = c.chroot /\ allowInsecure = c.allowInsecure
    /\ fs \in InitialFiles
    /\ hpc = "idle"
    /\ ConnInit
    /\ cli = None
    /\ boot = None /\ writer = None /\ env = None /\ mgr = None
    /\ am = [running |-> FALSE, cmd |-> NoProc, mu |-> NoProc, reused |-> FALSE]
    /\ call = [c \in Callers |-> [pc |-> "idle", op |-> "none", done |-> <<>>]]
    /\ \/ /\ procs = [p \in 1..External |-> NewProc]
          /\ sock \in {[file |-> f, listener |-> NoProc] : f \in BOOLEAN}
       \/ /\ procs = [p \in 1..External |->
                        IF p = External
                           THEN [NewProc EXCEPT !.state = "serving"]
                        ELSE NewProc]
          /\ sock = [file |-> TRUE, listener |-> External]

SupNext ==
    \/ \E c \in Callers : StartBegin(c)
    \/ \E c \in Callers : StartSocketReady(c)
    \/ \E c \in Callers : StartSocketTimeout(c)
    \/ \E c \in Callers : StopBegin(c)
    \/ \E c \in Callers : StopKill(c)
    \/ \E c \in Callers : StopDone(c)
    \/ \E p \in Spawned : DaemonListen(p)
    \/ \E p \in Spawned : DaemonTerminate(p)
    \/ \E p \in 1..External : DaemonExit(p)
    \/ \E p \in Spawned : ExitMonitor(p)

SpecSup == SupInit /\ [][SupNext]_vars

(***************************************************************************)
(* cmd/agentd: the daemons started on one socket path, from net.Listen to  *)
(* their exit                                                              *)
(***************************************************************************)
\* net.Listen fails after the os.Remove of the path: logger.Fatalf
DaemonListenFail(p) ==
    /\ procs[p].state = "starting"
    /\ procs' = [procs EXCEPT ![p].state = "dead", ![p].exit = "1", ![p].lerr = "bind"]
    /\ sock' = RemoveSocket
    /\ UNCHANGED <<am, call, agentVars>>

\* Accept returns an error that is not temporary: Serve returns it, the
\* goroutine of main logs it, and main goes on waiting for a signal
DaemonAcceptError(p) ==
    /\ procs[p].state = "serving"
    /\ procs' = [procs EXCEPT ![p].state = "deaf", ![p].lerr = "accept"]
    /\ sock' = SockAfterDeath(p)
    /\ UNCHANGED <<am, call, agentVars>>

\* SIGINT or SIGTERM is sent to a daemon
DaemonSignal(p) ==
    /\ procs[p].state \in {"starting", "serving", "deaf"}
    /\ procs' = [procs EXCEPT ![p] = Signalled(@)]
    /\ sock' = IF procs[p].state = "starting" THEN SockAfterDeath(p) ELSE sock
    /\ UNCHANGED <<am, call, agentVars>>

\* every process is an agentd started with the same -unix path; the path is
\* free or holds a stale socket file
DaemonInit ==
    /\ \E c \in ConnConfigs :
         /\ rootDir = c.rootDir /\ chroot = c.chroot /\ allowInsecure = c.allowInsecure
    /\ fs \in InitialFiles
    /\ hpc = "idle"
    /\ ConnInit
    /\ cli = None
    /\ boot = None /\ writer = None /\ env = None /\ mgr = None
    /\ am = [running |-> FALSE, cmd |-> NoProc, mu |-> NoProc, reused |-> FALSE]
    /\ call = [c \in Callers |-> [pc |-> "idle", op |-> "none", done |-> <<>>]]
    /\ procs = [p \in 1..External |-> [NewProc EXCEPT !.state = "starting"]]
    /\ sock \in {[file |-> f, listener |-> NoProc] : f \in BOOLEAN}

DaemonNext ==
    \E p \in 1..External :
        \/ DaemonListen(p)
        \/ DaemonListenFail(p)
        \/ DaemonAcceptError(p)
        \/ DaemonSignal(p)
        \/ DaemonTerminate(p)
        \/ DaemonExit(p)

SpecDaemon == DaemonInit /\ [][DaemonNext]_vars

(***************************************************************************)
(* limitedBuffer: a buffer and the Write calls on it                       *)
(***************************************************************************)
\* largest limit of a buffer
MaxLimit == 3

\* most Write calls on a buffer
MaxWrites == 3

\* the slices written
WriteSlices == {<<>>, <<1>>, <<2, 3>>, <<4, 5, 6, 7>>}

\* newLimitedBuffer(limit)
LimitedBufferInit ==
    /\ SupIdle
    /\ \E c \in ConnConfigs :
         /\ rootDir = c.rootDir /\ chroot = c.chroot /\ allowInsecure = c.allowInsecure
    /\ fs \in InitialFiles
    /\ hpc = "idle"
    /\ ConnInit
    /\ \E l \in 0..MaxLimit :
         cli = [limit |-> l, buf |-> <<>>, written |-> <<>>, writes |-> 0,
                ret |-> [n |-> 0, err |-> "nil"]]

\* limitedBuffer.Write(p) and what it returns: bytes.Buffer.Write returns
\* the length of the slice it is given and a nil error
LimitedBufferWrite ==
    /\ cli.writes < MaxWrites
    /\ \E p \in WriteSlices :
         LET buf == LimitedWrite(cli.buf, p, cli.limit)
             n == IF cli.limit <= 0 THEN 0
                  ELSE IF cli.limit - Len(cli.buf) <= 0 THEN Len(p)
                  ELSE Len(buf) - Len(cli.buf)
         IN  cli' = [cli EXCEPT !.buf = buf, !.written = @ \o p, !.writes = @ + 1,
                                !.ret = [n |-> n, err |-> "nil"]]
    /\ UNCHANGED <<sideVars, supVars, srvVars, connVars, hpc, payload, execVars, fileVars>>

SpecLimitedBuffer == LimitedBufferInit /\ [][LimitedBufferWrite]_vars

(***************************************************************************)
(* frameWriter.send from the three tasks of runExec that share the writer  *)
(* of a connection: streamPipe of stdout, streamPipe of stderr, and        *)
(* consumeStdin answering pings                                            *)
(***************************************************************************)
\* bytes of an encoded frame
FrameLen == 2

\* most frames a task sends
MaxSends == 2

\* newFrameWriter(conn): nothing written, the mutex free
WriterInit ==
    /\ \E c \in ConnConfigs :
         /\ rootDir = c.rootDir /\ chroot = c.chroot /\ allowInsecure = c.allowInsecure
    /\ fs \in InitialFiles
    /\ hpc = "wait"
    /\ ConnInit
    /\ cli = None
    /\ boot = None /\ env = None /\ mgr = None
    /\ am = [running |-> FALSE, cmd |-> NoProc, mu |-> NoProc, reused |-> FALSE]
    /\ procs = [p \in 1..External |-> NewProc]
    /\ sock = [file |-> FALSE, listener |-> NoProc]
    /\ call = [c \in Callers |-> [pc |-> "idle", op |-> "none", done |-> <<>>]]
    /\ writer = [mu |-> "none", pos |-> 0, wire |-> <<>>, err |-> FALSE,
                 sent |-> [w \in Streams \cup {"stdin"} |-> 0]]

\* a send that does not take the mutex
SendLockFree(w) ==
    /\ writer.sent[w] < MaxSends
    /\ writer.mu # w
    /\ writer' = [writer EXCEPT !.mu = w, !.pos = 0]
    /\ UNCHANGED <<boot, env, mgr, supVars, srvVars, connVars, hpc, payload, execVars,
                   fileVars, cli>>

\* send: the payload is marshalled, then w.mu.Lock()
SendLock(w) ==
    /\ writer.sent[w] < MaxSends
    /\ writer.mu = "none"
    /\ writer' = [writer EXCEPT !.mu = w, !.pos = 0]
    /\ UNCHANGED <<boot, env, mgr, supVars, srvVars, connVars, hpc, payload, execVars,
                   fileVars, cli>>

\* w.enc.Encode(&frame): the Write of the encoded frame puts its next byte on
\* the connection; after a failed Write the encoder writes nothing
SendEncode(w) ==
    /\ writer.mu = w
    /\ writer.pos < FrameLen /\ ~writer.err
    /\ writer' = [writer EXCEPT !.pos = @ + 1,
                     !.wire = Append(@, <<w, writer.sent[w] + 1, writer.pos + 1>>)]
    /\ UNCHANGED <<boot, env, mgr, supVars, srvVars, connVars, hpc, payload, execVars,
                   fileVars, cli>>

\* the Write on the connection fails: the encoder keeps the error
SendWriteError(w) ==
    /\ writer.mu = w
    /\ writer.pos < FrameLen /\ ~writer.err
    /\ writer' = [writer EXCEPT !.err = TRUE]
    /\ UNCHANGED <<boot, env, mgr, supVars, srvVars, connVars, hpc, payload, execVars,
                   fileVars, cli>>

\* Encode has returned: the deferred w.mu.Unlock()
SendUnlock(w) ==
    /\ writer.mu = w
    /\ writer.pos = FrameLen \/ writer.err
    /\ writer' = [writer EXCEPT !.mu = "none", !.sent[w] = @ + 1]
    /\ UNCHANGED <<boot, env, mgr, supVars, srvVars, connVars, hpc, payload, execVars,
                   fileVars, cli>>

SpecWriter ==
    WriterInit /\ [][\E w \in Streams \cup {"stdin"} :
                        SendLock(w) \/ SendEncode(w) \/ SendWriteError(w) \/ SendUnlock(w)]_vars

(***************************************************************************)
(* An upload: a client that writes a file_put_request and then any frames  *)
(***************************************************************************)
\* most frames the client writes after the request
MaxPutFrames == 3

\* the client writes the request, then any frame; cli.sent records the frames
\* written after the request
PutClientSend ==
    /\ connUp /\ ~connClosed
    /\ IF nsent = 0
          THEN /\ \E pp \in FilePaths \cup {""}, m \in {0, 384} :
                    c2s' = Append(c2s, Frame("file_put_request", [Path |-> pp, Mode |-> m]))
               /\ UNCHANGED cli
       ELSE /\ Len(cli.sent) < MaxPutFrames
            /\ \E f \in LaterFrames("file_put_request") :
                 /\ c2s' = Append(c2s, f)
                 /\ cli' = [cli EXCEPT !.sent = Append(@, f)]
    /\ nsent' = nsent + 1
    /\ UNCHANGED <<sideVars, supVars, srvVars, connUp, connClosed, s2c, readDeadline, hpc,
                   payload, execVars, fileVars>>

PutInit ==
    /\ \E c \in ConnConfigs :
         /\ rootDir = c.rootDir /\ chroot = c.chroot /\ allowInsecure = c.allowInsecure
    /\ fs \in InitialFiles
    /\ hpc = "idle"
    /\ ConnInit
    /\ SupIdle
    /\ cli = [request |-> "file_put_request", sent |-> <<>>]

SpecPut ==
    PutInit /\ [][\/ PutClientSend
                  \/ ClientClose
                  \/ HandleConnFilePutRequest
                  \/ HandleFilePutOpen
                  \/ HandleFilePutChunk
                  \/ HandleFilePutClose
                  \/ HandleFilePutUnexpected
                  \/ HandleFilePutReadError]_vars

(***************************************************************************)
(* NewServer and NewChrootExecutor                                         *)
(***************************************************************************)
\* filepath.Abs in a process whose os.Getwd returns cwd, or fails
Abs(path, cwd, getwd) ==
    IF IsAbs(path) THEN [err |-> FALSE, path |-> Clean(path)]
    ELSE IF ~getwd THEN [err |-> TRUE, path |-> ""]
    ELSE [err |-> FALSE, path |-> Clean(Join(cwd, path))]

\* NewServer(cfg) in a process with user id b.uid: the server's fields, or a
\* panic.  b.stat says whether os.Stat of the root directory succeeds
NewServer(b) ==
    LET abs == Abs(b.RootDir, b.cwd, b.getwd)
        srv(root, ch) == [panic |-> FALSE, rootDir |-> root, chroot |-> ch,
                          allowInsecure |-> b.AllowInsecure]
        failed == [panic |-> TRUE, rootDir |-> "", chroot |-> FALSE,
                   allowInsecure |-> FALSE]
    IN  IF b.RootDir = "" THEN srv("", FALSE)
        ELSE IF abs.err THEN srv(abs.path, FALSE)
        ELSE IF ~b.UseChrootIfRoot THEN srv(abs.path, FALSE)
        ELSE IF ~b.stat THEN failed
        ELSE IF b.uid # 0 THEN failed
        ELSE srv(abs.path, TRUE)

\* the configurations and processes NewServer is called with
BootInputs ==
    [RootDir : {"", "/r", "r", "/r/../r/"}, UseChrootIfRoot : BOOLEAN,
     AllowInsecure : BOOLEAN, uid : {0, 1000}, cwd : {"/"}, getwd : BOOLEAN,
     stat : BOOLEAN]

\* before the call: no server
BootInit ==
    /\ boot \in BootInputs
    /\ writer = None /\ env = None /\ mgr = None
    /\ am = [running |-> FALSE, cmd |-> NoProc, mu |-> NoProc, reused |-> FALSE]
    /\ procs = [p \in 1..External |-> NewProc]
    /\ sock = [file |-> FALSE, listener |-> NoProc]
    /\ call = [c \in Callers |-> [pc |-> "idle", op |-> "none", done |-> <<>>]]
    /\ rootDir = "" /\ chroot = FALSE /\ allowInsecure = FALSE
    /\ fs \in InitialFiles
    /\ hpc = "NewServer"
    /\ ConnInit
    /\ cli = None

\* the call of NewServer: it returns a server, which waits for connections,
\* or panics
NewServerCall ==
    /\ hpc = "NewServer"
    /\ LET s == NewServer(boot)
       IN  /\ hpc' = IF s.panic THEN "panic" ELSE "idle"
           /\ rootDir' = s.rootDir
           /\ chroot' = s.chroot
           /\ allowInsecure' = s.allowInsecure
    /\ UNCHANGED <<sideVars, supVars, connVars, payload, execVars, fileVars, cli>>

SpecBoot == BootInit /\ [][NewServerCall]_vars

(***************************************************************************)
(* The environment of a child: mergeEnv, envMapToList, flattenEnv and the  *)
(* Env field of exec.Cmd                                                   *)
(***************************************************************************)
EnvNames == {"A", "B", "PATH"}
EnvValues == {"x", "/bin"}

\* a map[string]string: a function from the names it holds to their values
EnvMaps == UNION {[D -> EnvValues] : D \in SUBSET EnvNames}

\* a nil map
NilMap == [k \in {} |-> ""]

\* the environments of the daemon process
DaemonEnvs == {[k \in {"PATH", "HOME"} |-> "/bin"], [k \in {"PATH", "TOKEN", "A"} |-> "x"]}

\* a nil []string
NilList == [nil |-> TRUE, list |-> <<>>]

mergeEnv(base, overrides) ==
    [k \in DOMAIN base \cup DOMAIN overrides |->
        IF k \in DOMAIN overrides THEN overrides[k] ELSE base[k]]

\* the orders in which a range over a map with the keys S may visit them
Orders(S) == {o \in [1..Cardinality(S) -> S] : \A i, j \in DOMAIN o : o[i] = o[j] => i = j}

\* envMapToList(m), the range over m visiting its keys in the order o: nil
\* for a map without entries
envMapToList(m, o) ==
    IF Cardinality(DOMAIN m) = 0 THEN NilList
    ELSE [nil |-> FALSE, list |-> [i \in 1..Cardinality(DOMAIN m) |-> o[i] \o "=" \o m[o[i]]]]

flattenEnv(base, overrides, o) == envMapToList(mergeEnv(base, overrides), o)

\* the environment exec.Cmd starts the child with: that of the calling
\* process when Cmd.Env is nil, the entries of Cmd.Env otherwise
Environ(cmdEnv, daemon) ==
    IF cmdEnv.nil THEN {k \o "=" \o daemon[k] : k \in DOMAIN daemon}
    ELSE {cmdEnv.list[i] : i \in 1..Len(cmdEnv.list)}

\* a daemon and an exec_request with its env field; an absent env is a nil
\* map, which has no entries either
EnvInit ==
    /\ boot = None /\ writer = None /\ mgr = None
    /\ am = [running |-> FALSE, cmd |-> NoProc, mu |-> NoProc, reused |-> FALSE]
    /\ procs = [p \in 1..External |-> NewProc]
    /\ sock = [file |-> FALSE, listener |-> NoProc]
    /\ call = [c \in Callers |-> [pc |-> "idle", op |-> "none", done |-> <<>>]]
    /\ \E c \in ConnConfigs :
         /\ rootDir = c.rootDir /\ chroot = c.chroot /\ allowInsecure = c.allowInsecure
    /\ fs \in InitialFiles
    /\ hpc = "idle"
    /\ ConnInit
    /\ cli = None
    /\ \E d \in DaemonEnvs, m \in EnvMaps :
         env = [daemon |-> d, request |-> m, started |-> FALSE, cmdEnv |-> NilList,
                child |-> {}]

\* runExec: command.Env = flattenEnv(nil, payload.Env), and the start of the
\* child with it
RunExecEnv ==
    /\ ~env.started
    /\ \E o \in Orders(DOMAIN env.request) :
         LET cmdEnv == flattenEnv(NilMap, env.request, o) IN
         env' = [env EXCEPT !.started = TRUE, !.cmdEnv = cmdEnv,
                            !.child = Environ(cmdEnv, env.daemon)]
    /\ UNCHANGED <<boot, writer, mgr, supVars, srvVars, connVars, hpc, payload, execVars,
                   fileVars, cli>>

SpecEnv == EnvInit /\ [][RunExecEnv]_vars


(***************************************************************************)
(* The container Manager and the containers it hands out                   *)
(***************************************************************************)
MaxMgrCalls == 5

ErrContainerExists     == "container already exists"
ErrContainerNotFound   == "container not found"
ErrContainerNotCreated == "container not created"

ContainerNames == {"a", "b"}
NilCfg         == "nil"
NoContainer    == 0
Handles        == 1..MaxMgrCalls

\* the names in m.containers
Managed == {n \in ContainerNames : mgr.containers[n] # NoContainer}

\* the return of a call on the Manager or on a container, with the call
Called(op, name, h, ret) ==
    [op |-> op, name |-> name, h |-> h, ret |-> ret]

\* CreateContainer that puts the container in the map before it creates the VM
CreateContainerRegisterFirst(cfg, ok) ==
    /\ mgr.calls < MaxMgrCalls
    /\ IF cfg = NilCfg
       THEN mgr' = [mgr EXCEPT !.calls = @ + 1,
                        !.last = Called("CreateContainer", cfg, NoContainer,
                                        "config is required")]
       ELSE IF cfg \in Managed
       THEN mgr' = [mgr EXCEPT !.calls = @ + 1,
                        !.last = Called("CreateContainer", cfg, NoContainer,
                                        ErrContainerExists)]
       ELSE LET c == mgr.made + 1 IN
            mgr' = [mgr EXCEPT !.calls = @ + 1, !.made = c,
                        !.containers[cfg] = c,
                        !.vm[c] = ok,
                        !.last = Called("CreateContainer", cfg,
                                        IF ok THEN c ELSE NoContainer,
                                        IF ok THEN "nil" ELSE "create vm")]
    /\ UNCHANGED <<boot, writer, env, supVars, srvVars, connVars, hpc, payload, execVars,
                   fileVars, cli>>

\* Manager.CreateContainer(ctx, cfg); ok: the runtime's CreateVM succeeds
CreateContainer(cfg, ok) ==
    /\ mgr.calls < MaxMgrCalls
    /\ IF cfg = NilCfg
       THEN mgr' = [mgr EXCEPT !.calls = @ + 1,
                        !.last = Called("CreateContainer", cfg, NoContainer,
                                        "config is required")]
       ELSE IF cfg \in Managed
       THEN mgr' = [mgr EXCEPT !.calls = @ + 1,
                        !.last = Called("CreateContainer", cfg, NoContainer,
                                        ErrContainerExists)]
       ELSE IF ~ok
       THEN mgr' = [mgr EXCEPT !.calls = @ + 1,
                        !.last = Called("CreateContainer", cfg, NoContainer,
                                        "create vm")]
       ELSE LET c == mgr.made + 1 IN
            mgr' = [mgr EXCEPT !.calls = @ + 1, !.made = c,
                        !.containers[cfg] = c,
                        !.vm[c] = TRUE,
                        !.deleted[c] = FALSE,
                        !.last = Called("CreateContainer", cfg, c, "nil")]
    /\ UNCHANGED <<boot, writer, env, supVars, srvVars, connVars, hpc, payload, execVars,
                   fileVars, cli>>

\* Manager.GetContainer(name)
GetContainer(name) ==
    /\ mgr.calls < MaxMgrCalls
    /\ mgr' = [mgr EXCEPT !.calls = @ + 1,
                   !.last = Called("GetContainer", name, mgr.containers[name],
                                   IF name \in Managed THEN "true" ELSE "false")]
    /\ UNCHANGED <<boot, writer, env, supVars, srvVars, connVars, hpc, payload, execVars,
                   fileVars, cli>>

\* Manager.DeleteContainer(ctx, name); ok: the VM's Delete succeeds
DeleteContainer(name, ok) ==
    /\ mgr.calls < MaxMgrCalls
    /\ LET c == mgr.containers[name] IN
       IF name \notin Managed
       THEN mgr' = [mgr EXCEPT !.calls = @ + 1,
                        !.last = Called("DeleteContainer", name, NoContainer,
                                        ErrContainerNotFound)]
       ELSE IF mgr.vm[c] /\ ~ok
       THEN mgr' = [mgr EXCEPT !.calls = @ + 1,
                        !.last = Called("DeleteContainer", name, c, "vm delete")]
       ELSE mgr' = [mgr EXCEPT !.calls = @ + 1,
                        !.containers[name] = NoContainer,
                        !.vm[c] = FALSE,
                        !.deleted[c] = TRUE,
                        !.last = Called("DeleteContainer", name, c, "nil")]
    /\ UNCHANGED <<boot, writer, env, supVars, srvVars, connVars, hpc, payload, execVars,
                   fileVars, cli>>

\* Create on a container the caller holds; ok: the runtime's CreateVM succeeds
ContainerCreate(c, ok) ==
    /\ mgr.calls < MaxMgrCalls
    /\ c <= mgr.made
    /\ IF mgr.vm[c]
       THEN mgr' = [mgr EXCEPT !.calls = @ + 1,
                        !.last = Called("Create", NilCfg, c, "nil")]
       ELSE IF ~ok
       THEN mgr' = [mgr EXCEPT !.calls = @ + 1,
                        !.last = Called("Create", NilCfg, c, "create vm")]
       ELSE mgr' = [mgr EXCEPT !.calls = @ + 1,
                        !.vm[c] = TRUE,
                        !.deleted[c] = FALSE,
                        !.last = Called("Create", NilCfg, c, "nil")]
    /\ UNCHANGED <<boot, writer, env, supVars, srvVars, connVars, hpc, payload, execVars,
                   fileVars, cli>>

\* Delete on a container the caller holds; ok: the VM's Delete succeeds
ContainerDelete(c, ok) ==
    /\ mgr.calls < MaxMgrCalls
    /\ c <= mgr.made
    /\ IF ~mgr.vm[c]
       THEN mgr' = [mgr EXCEPT !.calls = @ + 1,
                        !.last = Called("Delete", NilCfg, c, "nil")]
       ELSE IF ~ok
       THEN mgr' = [mgr EXCEPT !.calls = @ + 1,
                        !.last = Called("Delete", NilCfg, c, "vm delete")]
       ELSE mgr' = [mgr EXCEPT !.calls = @ + 1,
                        !.vm[c] = FALSE,
                        !.last = Called("Delete", NilCfg, c, "nil")]
    /\ UNCHANGED <<boot, writer, env, supVars, srvVars, connVars, hpc, payload, execVars,
                   fileVars, cli>>

\* Start or Exec on a container the caller holds: without a VM the call
\* returns ErrContainerNotCreated, with one it returns what the VM returns
ContainerUse(op, c, ok) ==
    /\ mgr.calls < MaxMgrCalls
    /\ c <= mgr.made
    /\ mgr' = [mgr EXCEPT !.calls = @ + 1,
                   !.last = Called(op, NilCfg, c,
                                   IF ~mgr.vm[c] THEN ErrContainerNotCreated
                                   ELSE IF ok THEN "nil" ELSE "vm error")]
    /\ UNCHANGED <<boot, writer, env, supVars, srvVars, connVars, hpc, payload, execVars,
                   fileVars, cli>>

\* NewManager: no container, no call yet
ManagerInit ==
    /\ boot = None /\ writer = None /\ env = None
    /\ am = [running |-> FALSE, cmd |-> NoProc, mu |-> NoProc, reused |-> FALSE]
    /\ procs = [p \in 1..External |-> NewProc]
    /\ sock = [file |-> FALSE, listener |-> NoProc]
    /\ call = [c \in Callers |-> [pc |-> "idle", op |-> "none", done |-> <<>>]]
    /\ \E c \in ConnConfigs :
         /\ rootDir = c.rootDir /\ chroot = c.chroot /\ allowInsecure = c.allowInsecure
    /\ fs \in InitialFiles
    /\ hpc = "idle"
    /\ ConnInit
    /\ cli = None
    /\ mgr = [containers |-> [n \in ContainerNames |-> NoContainer],
              vm |-> [c \in Handles |-> FALSE],
              deleted |-> [c \in Handles |-> FALSE],
              made |-> 0, calls |-> 0,
              last |-> Called("none", NilCfg, NoContainer, "nil")]

ManagerNext ==
    \/ \E cfg \in ContainerNames \cup {NilCfg}, ok \in BOOLEAN : CreateContainer(cfg, ok)
    \/ \E name \in ContainerNames : GetContainer(name)
    \/ \E name \in ContainerNames, ok \in BOOLEAN : DeleteContainer(name, ok)
    \/ \E c \in Handles, ok \in BOOLEAN : ContainerCreate(c, ok)
    \/ \E c \in Handles, ok \in BOOLEAN : ContainerDelete(c, ok)
    \/ \E op \in {"Start", "Exec"}, c \in Handles, ok \in BOOLEAN : ContainerUse(op, c, ok)

SpecManager == ManagerInit /\ [][ManagerNext]_vars


(***************************************************************************)
(* cmd/agentd: from the flags to the ServerConfig handed to NewServer      *)
(***************************************************************************)
\* the flags -root, -chroot and -no-chroot, and the process agentd runs in
AgentdFlags ==
    [root : {"", "/r", "r", "/r/../r/"}, chroot : BOOLEAN, noChroot : BOOLEAN,
     uid : {0, 1000}, cwd : {"/"}, getwd : BOOLEAN, stat : BOOLEAN]

\* a ServerConfig that never allows insecure mode
AgentdConfigStrict(f) ==
    [RootDir |-> f.root, UseChrootIfRoot |-> f.chroot /\ ~f.noChroot /\ f.root # "",
     AllowInsecure |-> FALSE,
     uid |-> f.uid, cwd |-> f.cwd, getwd |-> f.getwd, stat |-> f.stat,
     chrootFlag |-> f.chroot, noChroot |-> f.noChroot]

\* main: -no-chroot overrides -chroot, -chroot without -root is dropped, and
\* AllowInsecure is the negation of what is left of -chroot
AgentdConfig(f) ==
    LET useChroot == IF f.noChroot THEN FALSE
                     ELSE IF f.chroot /\ f.root = "" THEN FALSE
                     ELSE f.chroot
    IN  [RootDir |-> f.root, UseChrootIfRoot |-> useChroot, AllowInsecure |-> ~useChroot,
         uid |-> f.uid, cwd |-> f.cwd, getwd |-> f.getwd, stat |-> f.stat,
     chrootFlag |-> f.chroot, noChroot |-> f.noChroot]

\* agentd before its call of NewServer
AgentdInit ==
    /\ \E f \in AgentdFlags : boot = AgentdConfig(f)
    /\ writer = None /\ env = None /\ mgr = None
    /\ am = [running |-> FALSE, cmd |-> NoProc, mu |-> NoProc, reused |-> FALSE]
    /\ procs = [p \in 1..External |-> NewProc]
    /\ sock = [file |-> FALSE, listener |-> NoProc]
    /\ call = [c \in Callers |-> [pc |-> "idle", op |-> "none", done |-> <<>>]]
    /\ rootDir = "" /\ chroot = FALSE /\ allowInsecure = FALSE
    /\ fs \in InitialFiles
    /\ hpc = "NewServer"
    /\ ConnInit
    /\ cli = None

SpecAgentd == AgentdInit /\ [][NewServerCall]_vars

(***************************************************************************)
(* Lexical containment, as the specification states it: an absolute path   *)
(* is inside the root when the root's elements are the first elements of   *)
(* the path's, "." and ".." resolved                                       *)
(***************************************************************************)
RECURSIVE LexResolve(_, _)
LexResolve(es, stack) ==
    IF es = <<>> THEN stack
    ELSE IF Head(es) \in {"", "."} THEN LexResolve(Tail(es), stack)
    ELSE IF Head(es) = ".."
        THEN LexResolve(Tail(es), IF stack = <<>> THEN <<>>
                                  ELSE SubSeq(stack, 1, Len(stack) - 1))
    ELSE LexResolve(Tail(es), Append(stack, Head(es)))

LexElems(abs) == LexResolve(Split(abs), <<>>)

LexInside(root, abs) ==
    LET r == LexElems(root)
        a == LexElems(abs)
    IN  Len(r) <= Len(a) /\ SubSeq(a, 1, Len(r)) = r

\* the directory a request's relative paths are resolved in
LexWorkingDir(root, wd) ==
    IF wd = "" THEN root
    ELSE IF Head(wd) = "/" THEN wd
    ELSE root \o "/" \o wd

LexArg(root, wd, arg) ==
    IF Head(arg) = "/" THEN arg ELSE LexWorkingDir(root, wd) \o "/" \o arg

\* an argument the containment rule is about
PathArgument(arg) == ContainsChar(arg, "/") /\ Head(arg) # "-"

\* the request names a working directory or a path argument outside the root
RequestEscapes ==
    \/ ~LexInside(rootDir, LexWorkingDir(rootDir, payload.WorkingDir))
    \/ \E i \in 1..Len(payload.Args) :
         /\ PathArgument(payload.Args[i])
         /\ ~LexInside(rootDir, LexArg(rootDir, payload.WorkingDir, payload.Args[i]))

\* no child was started for the request
NoChildStarted == child = NoChild /\ hpc \notin {"wait", "join"}

\* the handler has answered with exactly one frame, an error frame
AnsweredWithError == Len(s2c) = 1 /\ s2c[1].type = "error"

\* C2: with a root directory and without chroot, an exec request whose working
\* directory or path argument lexically resolves outside the root starts no
\* child and is answered with an error frame whose message starts with
\* "security violation".
C2_EscapeRejected ==
    (rootDir # "" /\ ~chroot /\ RequestEscapes)
        => /\ NoChildStarted
           /\ hpc \in {"runExec", "closed"}
           /\ hpc = "closed" =>
                 /\ AnsweredWithError
                 /\ s2c[1].payload.Message[1] = "security violation: "

\* a request with a path argument outside the root, not a shell, its working
\* directory inside the root, has been rejected naming the argument
C2_Witness ==
    /\ rootDir # "" /\ ~chroot /\ hpc = "closed"
    /\ LexInside(rootDir, LexWorkingDir(rootDir, payload.WorkingDir))
    /\ payload.Path = "cat"
    /\ RequestEscapes
    /\ AnsweredWithError
    /\ s2c[1].payload.Message = <<"security violation: ", "argument path escapes root">>
    /\ s2c[1].payload.arg = 1


(***************************************************************************)
(* The interpreter and the shell policy, as the specification states them  *)
(***************************************************************************)
\* the request was refused by path validation or by the interpreter policy
RefusedByPolicy ==
    /\ hpc = "closed" /\ AnsweredWithError
    /\ s2c[1].payload.Message[1] \in {SecurityViolation, InterpreterRefused}

RefusedAsInterpreter ==
    hpc = "closed" /\ AnsweredWithError /\ s2c[1].payload.Message = <<InterpreterRefused>>

\* the interpreter list of the specification: python*, and the other names
ListedInterpreter(base) ==
    \/ HasPrefix(base, "python")
    \/ base \in {"node", "nodejs", "ruby", "irb", "php", "perl", "lua", "java",
                 "javac", "go", "gofmt", "bash", "sh", "zsh", "fish", "ksh",
                 "cmd.exe", "powershell.exe", "pwsh.exe"}

\* an exec request for a listed interpreter on a server with a root directory
\* and without chroot
InterpreterRequest ==
    rootDir # "" /\ ~chroot /\ ListedInterpreter(Base(payload.Path))

\* the request is answered with an error frame and has no child
RejectedWithoutChild ==
    /\ NoChildStarted
    /\ hpc \in {"runExec", "start", "closed"}
    /\ hpc = "closed" => AnsweredWithError

ShellBases ==
    {"sh", "bash", "zsh", "ksh", "fish", "cmd", "cmd.exe", "powershell",
     "powershell.exe", "pwsh", "pwsh.exe"}

ScriptSuffixes == {".sh", ".bash", ".ps1", ".bat", ".cmd"}

HasDashC == \E i \in 1..Len(payload.Args) : payload.Args[i] = "-c"

HasScriptArgument ==
    \E i \in 1..Len(payload.Args) :
        /\ Head(payload.Args[i]) # "-"
        /\ \E x \in ScriptSuffixes : HasSuffix(payload.Args[i], x)

ShellRequest ==
    rootDir # "" /\ ~chroot /\ Base(payload.Path) \in ShellBases

TerminalTypes == {"result", "file_put_result", "file_get_result", "error"}

ResultTypes == {"result", "file_put_result", "file_get_result"}

TerminalFrames == {i \in 1..Len(s2c) : s2c[i].type \in TerminalTypes}

\* handleConn has handed a request to runExec, handleFilePut or handleFileGet
Dispatched == payload # None

\* C1: on a connection on which a request was dispatched and which the client
\* keeps open, the handler writes no terminal frame until it returns, and when
\* it returns it has written exactly one, as the last frame, and the connection
\* is closed.
C1_OneTerminalFrame ==
    (Dispatched /\ connUp) =>
        IF hpc = "closed"
           THEN /\ Cardinality(TerminalFrames) = 1
                /\ s2c[Len(s2c)].type \in TerminalTypes
                /\ connClosed
           ELSE TerminalFrames = {} /\ ~connClosed

\* an exec request has run a child to its end and was answered with a result
\* after a streamed chunk
C1_Witness ==
    /\ Dispatched /\ connUp /\ hpc = "closed" /\ connClosed
    /\ child.state = "waited"
    /\ Len(s2c) = 2
    /\ s2c[1].type = "stdout" /\ s2c[2].type = "result"

\* a path outside the root directory
OutsideRoot(path) == path # "" /\ ~LexInside(rootDir, path)

FileRequest ==
    /\ cli # None /\ cli.request \in {"file_put_request", "file_get_request"}
    /\ Dispatched

\* C3: with a root directory, a file_put_request or file_get_request for a
\* path outside the root is rejected: the handler does not open the file, the
\* files outside the root keep their content, none of it is sent.
C3_FileOpsWithinRoot ==
    (rootDir # "" /\ FileRequest /\ OutsideRoot(payload.Path)) =>
        /\ hpc \notin {"putLoop", "getLoop"}
        /\ \A f \in InitialFiles : fs[payload.Path] = f[payload.Path]
        /\ \A i \in 1..Len(s2c) : s2c[i].type \notin {"file_get_chunk"} \cup ResultTypes

\* the bytes of the chunk frames of a stream, in the order of the frames
RECURSIVE StreamedFrom(_, _)
StreamedFrom(frames, s) ==
    IF frames = <<>> THEN <<>>
    ELSE (IF Head(frames).type = s THEN Base64Decode(Head(frames).payload.Data) ELSE <<>>)
         \o StreamedFrom(Tail(frames), s)

Streamed(s) == StreamedFrom(s2c, s)

\* the exchange has ended with a result frame
EndedWithResult ==
    hpc = "closed" /\ Len(s2c) > 0 /\ s2c[Len(s2c)].type = "result"

ResultOf(s) ==
    LET r == s2c[Len(s2c)].payload IN
    Base64Decode(IF s = "stdout" THEN r.Stdout ELSE r.Stderr)

\* C6: when the exchange has ended with a result, for each stream the result
\* carries min(N, C) bytes, N the number of bytes the child wrote and C the cap,
\* and in stream mode the chunk frames of the stream carry N bytes in all.
C6_OutputLengths ==
    EndedWithResult =>
        \A s \in Streams :
            /\ Len(ResultOf(s)) = Min(Len(wrote[s]), BufLimit)
            /\ payload.Stream => Len(Streamed(s)) = Len(wrote[s])

\* C8: a result, file_put_result or file_get_result frame is the last frame
\* the server writes on the connection.
C8_ResultIsLast ==
    \A i \in 1..Len(s2c) : s2c[i].type \in ResultTypes => i = Len(s2c)

\* a pong, a stdout chunk and then the result
C8_Witness ==
    /\ hpc = "closed" /\ Len(s2c) = 3
    /\ s2c[1].type = "pong" /\ s2c[2].type = "stdout" /\ s2c[3].type = "result"

\* the exchange has ended with a result frame of a non-zero exit code and
\* without an error frame
EndedWithNonZeroResult ==
    /\ EndedWithResult
    /\ s2c[Len(s2c)].payload.ExitCode # 0
    /\ \A i \in 1..Len(s2c) : s2c[i].type # "error"

\* C10: when the deadline of a request fires while the child runs, the child
\* is killed, the handler eventually returns, and on a connection the client
\* keeps open the exchange has then ended with a result frame of a non-zero
\* exit code, not with an error frame.
C10_TimeoutKill ==
    /\ [](deadline = "fired" => child.state # "running" /\ child.signaled)
    /\ []((deadline = "fired" /\ hpc = "closed" /\ connUp) => EndedWithNonZeroResult)
    /\ (deadline = "fired") ~> (hpc = "closed")

C10_Witness ==
    /\ deadline = "fired" /\ hpc = "closed" /\ connUp
    /\ payload.TimeoutMilli = SomeTimeout
    /\ EndedWithNonZeroResult
    /\ s2c[Len(s2c)].payload.ExitCode = SignalExitCode


(***************************************************************************)
(* Properties of the streaming client and of the two copies                *)
(***************************************************************************)
RECURSIVE Flatten(_)
Flatten(chunks) ==
    IF chunks = <<>> THEN <<>> ELSE Head(chunks) \o Flatten(Tail(chunks))

IsPrefix(a, b) == Len(a) <= Len(b) /\ SubSeq(b, 1, Len(a)) = a

\* the bytes forwardStream has sent on the channel of a stream, received by
\* the caller or not
Delivered(s) == cli.got[s] \o Flatten(cli.ch[s])

\* C7: in stream mode the chunks delivered on the Stdout channel of the client,
\* concatenated, are at every moment a prefix of what the child wrote to its
\* stdout, and the same for stderr.
C7_StreamPrefix ==
    \A s \in Streams : IsPrefix(Delivered(s), wrote[s])

\* the caller has received two bytes of stdout and one of stderr and the result
C7_Witness ==
    /\ cli.got["stdout"] = <<72, 105>>
    /\ cli.got["stderr"] = <<101>>
    /\ Len(cli.done) = 1 /\ cli.done[1].ExitCode = 0

\* C9: when CopyTo(F, p) and then CopyFrom(p, sink) have both returned nil,
\* sink holds exactly F and the file_put_result and the file_get_result both
\* report |F| bytes.
C9_CopyRoundTrip ==
    cli.pc = "done" =>
        /\ cli.sink = cli.F
        /\ cli.put.Bytes = Len(cli.F)
        /\ cli.get.Bytes = Len(cli.F)

\* a file of three bytes, sent in two chunks over a file that existed with
\* other content, has come back
C9_Witness ==
    /\ cli.pc = "done"
    /\ cli.path = "/o/f"
    /\ cli.F = <<255, 0, 77>>
    /\ cli.sink = cli.F
    /\ Len(s2c) = 3


(***************************************************************************)
(* Properties of the exec handler and of handleConn                        *)
(***************************************************************************)
\* C11: when the client has closed the connection while the child of an exec
\* runs, the server kills the child and the handler returns, without waiting
\* for the child to exit on its own.
C11_KilledOnDisconnect ==
    (~connUp /\ hpc = "wait" /\ child.state = "running")
        ~> (child.state # "running" /\ hpc = "closed")

\* the client has written an exec request and handleConn has dispatched it
ExecDispatched == cli # None /\ cli.request = "exec_request" /\ Dispatched

NoErrorFrame == \A i \in 1..Len(s2c) : s2c[i].type # "error"

\* Wait has reported how the child exited: nil or an *exec.ExitError
ExitReported == child.state = "waited" /\ waitErr \in {"nil", "ExitError"}

EndedWithError ==
    hpc = "closed" /\ Len(s2c) > 0 /\ s2c[Len(s2c)].type = "error"

EntryPoints == {"runExec", "filePut", "fileGet"}

AllPongs == \A i \in 1..Len(s2c) : s2c[i].type = "pong"

\* C13: as long as no request has arrived on an open connection, the server
\* has answered every ping it has read with one pong and nothing else; a
\* handler is entered only from the idle state, which is never entered again;
\* once the handler has returned the connection is closed and the server does
\* nothing more on it; a child is spawned at most once, and only for an exec
\* request.
C13_OneRequestPerConnection ==
    /\ []((hpc = "idle" /\ connUp) => (AllPongs /\ Len(s2c) = nsent - Len(c2s)))
    /\ [][(hpc' \in EntryPoints /\ hpc' # hpc) => hpc = "idle"]_vars
    /\ [][hpc # "idle" => hpc' # "idle"]_vars
    /\ [](hpc = "closed" => connClosed)
    /\ [][hpc = "closed" => (hpc' = "closed" /\ s2c' = s2c /\ c2s' = c2s
                             /\ child' = child /\ fs' = fs)]_vars
    /\ [][child'.state = "running" => (child = NoChild \/ child.state = "running")]_vars
    /\ [](child # NoChild => ExecDispatched)

\* a ping was answered with a pong, then an exec request ran a child to its
\* end and was answered with a result
C13_Witness ==
    /\ hpc = "closed" /\ connClosed /\ connUp
    /\ child.state = "waited"
    /\ Len(s2c) = 2
    /\ s2c[1].type = "pong" /\ s2c[2].type = "result"

\* C14: when handleConn has returned on an open connection on which the client
\* has written no request, so that the last frame read was malformed or of an
\* unsupported type, the server has written exactly one error frame, as its
\* last frame, has spawned no child and has touched no file.
C14_MalformedOrUnsupported ==
    (hpc = "closed" /\ connUp /\ cli = None) =>
        /\ EndedWithError
        /\ Cardinality(TerminalFrames) = 1
        /\ child = NoChild
        /\ fs \in InitialFiles

(***************************************************************************)
(* Properties of the stdin pump                                            *)
(***************************************************************************)
\* the frames the server has read after the request
StdinRead ==
    LET n == nsent - Len(c2s) - 1 IN
    IF n > 0 THEN SubSeq(cli.sent, 1, n) ELSE <<>>

\* the payloads of the stdin chunks among frames, in order
RECURSIVE ChunkBytes(_)
ChunkBytes(frames) ==
    IF frames = <<>> THEN <<>>
    ELSE (IF Head(frames).type = "stdin_chunk" /\ Head(frames).payload # BadPayload
             THEN Base64Decode(Head(frames).payload.Data) ELSE <<>>)
         \o ChunkBytes(Tail(frames))

CountOf(frames, typ) == Cardinality({i \in 1..Len(frames) : frames[i].type = typ})

\* C15: the bytes written to the child's stdin are a prefix of the payloads of
\* the stdin_chunk frames the server has read, in order, and all of them while
\* the child runs; a stdin_close is the last frame the pump reads and ends it;
\* on an open connection every ping read by the pump is answered with one pong,
\* and the pump ends, short of a read error or the read deadline, only on a
\* frame that is neither a chunk nor a ping.
C15_StdinInOrder ==
    /\ IsPrefix(childStdin, ChunkBytes(StdinRead))
    /\ child.state = "running" => childStdin = ChunkBytes(StdinRead)
    /\ \A i \in 1..Len(StdinRead) :
         StdinRead[i].type = "stdin_close" => (i = Len(StdinRead) /\ stdinPc = "done")
    /\ connUp => CountOf(s2c, "pong") = CountOf(StdinRead, "ping")
    /\ (stdinPc = "done" /\ connUp /\ ~readDeadline) =>
         /\ Len(StdinRead) > 0
         /\ StdinRead[Len(StdinRead)].type \notin {"stdin_chunk", "ping"}

\* the pump has written a chunk of two bytes, answered a ping, written a chunk
\* of one byte, and goes on
C15_Witness ==
    /\ childStdin = <<2, 3, 1>>
    /\ CountOf(s2c, "pong") = 1
    /\ Len(StdinRead) = 3 /\ StdinRead[2].type = "ping"
    /\ stdinPc = "run" /\ child.state = "running"

(***************************************************************************)
(* Properties of IPCClient.Exec                                            *)
(***************************************************************************)
\* the frames readExecResult has read
ExecRead == SubSeq(s2c, 1, cli.read)

\* C16: when Exec has returned a nil error, the last frame it read is a result
\* frame, and it returned the exit code and the output of that frame, or an
\* error frame, and it returned exit code -1 with the message of that frame as
\* Stderr; when it has returned an error, the dial, the write of the request
\* or a read has failed, it returned no result, and it has read neither a
\* result nor an error frame.
C16_ExecReturn ==
    cli.pc = "returned" =>
        IF cli.ret.err = "nil"
           THEN /\ cli.read > 0
                /\ LET f == s2c[cli.read] IN
                     \/ /\ f.type = "result"
                        /\ cli.ret.result.ExitCode = f.payload.ExitCode
                        /\ cli.ret.result.Stdout = collector["stdout"]
                        /\ cli.ret.result.Stderr = collector["stderr"]
                     \/ /\ f.type = "error"
                        /\ cli.ret.result.ExitCode = execErrorExitCode
                        /\ cli.ret.result.Stdout = <<>>
                        /\ cli.ret.result.Text = f.payload.Message
        ELSE /\ cli.ret.err \in {"dial", "write", "read"}
             /\ cli.ret.result = None
             /\ \A i \in 1..cli.read : s2c[i].type \notin {"result", "error"}

\* Exec has returned the synthesized result of a security violation
C16_Witness ==
    /\ cli.pc = "returned" /\ cli.ret.err = "nil"
    /\ cli.ret.result.ExitCode = execErrorExitCode
    /\ cli.ret.result.Text[1] = SecurityViolation

(***************************************************************************)
(* Properties of the channels of a CommandStream                           *)
(***************************************************************************)
IsClosed(ch) == \E i \in 1..Len(cli.closed) : cli.closed[i] = ch

\* C17: the Stdout or the Stderr channel is closed only after forwardStream
\* has placed a result, or a synthesized error result, on Done.
C17_DoneBeforeClose ==
    (IsClosed("Stdout") \/ IsClosed("Stderr")) => Len(cli.done) = 1

\* C18: a Cancel closes the connection; after it the forwarding task returns
\* and the Done, Stderr and Stdout channels are closed, wherever the task was;
\* a Cancel after the first changes nothing.
C18_CancelCloses ==
    /\ [](cli.ctx = "cancelled" => ~connUp)
    /\ (cli.ctx = "cancelled")
         ~> (cli.fwd = "done" /\ IsClosed("Done") /\ IsClosed("Stderr") /\ IsClosed("Stdout"))
    /\ [][(cli.ctx = "cancelled" /\ cli'.cancels # cli.cancels) =>
            (cli' = [cli EXCEPT !.cancels = cli'.cancels] /\ connUp' = connUp)]_vars

\* Cancel was called twice, the first time with a chunk waiting in the Stdout
\* channel, and the three channels are closed
C18_Witness ==
    /\ cli.cancels = 2
    /\ Len(cli.ch["stdout"]) = 1
    /\ Len(cli.closed) = 3
    /\ ~connUp

(***************************************************************************)
(* Properties of the AgentManager                                          *)
(***************************************************************************)
AliveDaemons(ps) == {p \in ps : procs[p].state \in Alive}

\* caller c takes a step of a Start call from its beginning
BeginsStart(c) == call[c].pc = "idle" /\ call'[c] # call[c] /\ call'[c].op = "Start"

\* the calls that have returned, of all callers
ReturnedCalls == UNION {{<<c, i>> : i \in 1..Len(call[c].done)} : c \in Callers}

\* two or more calls have returned, all of them Start calls that returned
\* nil, no call is under way and no daemon has exited
StartedTwice ==
    /\ Cardinality(ReturnedCalls) >= 2
    /\ \A x \in ReturnedCalls :
         call[x[1]].done[x[2]] = [op |-> "Start", ret |-> "nil"]
    /\ \A c \in Callers : call[c].pc = "idle"
    /\ \A p \in 1..External : procs[p].state # "dead"

C20_PingFirst ==
    /\ [][\A c \in Callers :
            BeginsStart(c) =>
                IF sock.listener # NoProc
                   THEN /\ procs' = procs /\ sock' = sock
                        /\ am'.running
                        /\ call'[c].pc = "idle"
                        /\ call'[c].done[Len(call'[c].done)].ret = "nil"
                ELSE \/ am.running /\ procs' = procs /\ sock' = sock
                     \/ /\ ~am.running /\ ~sock'.file
                        /\ \/ call'[c].pc = "waitSocket"
                              /\ Cardinality(AliveDaemons(Spawned)') =
                                     Cardinality(AliveDaemons(Spawned)) + 1
                           \/ call'[c].pc = "idle" /\ procs' = procs
                              /\ call'[c].done[Len(call'[c].done)].ret # "nil"]_vars
    /\ [][\A p \in Spawned :
            (procs[p].state = "none" /\ procs'[p].state # "none") =>
                /\ ~am.running /\ sock.listener = NoProc
                /\ \E c \in Callers : BeginsStart(c)]_vars

\* Start has found the daemon of somebody else answering: it returned nil,
\* the manager is running without a process of its own, the socket file is
\* there
C20_Witness ==
    /\ call[1].done = <<[op |-> "Start", ret |-> "nil"]>>
    /\ am.running /\ am.cmd = NoProc
    /\ \A p \in Spawned : procs[p].state = "none"
    /\ procs[External].state = "serving"
    /\ sock = [file |-> TRUE, listener |-> External]

\* caller c takes a step of a Stop call from its beginning
BeginsStop(c) == call[c].pc = "idle" /\ call'[c] # call[c] /\ call'[c].op = "Stop"

\* C21: a Stop while the daemon the manager spawned is alive sends SIGTERM
\* to it and goes on to wait for it; SIGKILL is sent by Stop only to a daemon
\* that got SIGTERM and has not exited; and Stop returns from the wait only
\* when the daemon has exited, with the socket file removed and the manager
\* not running.
C21_StopReaps ==
    /\ [][\A c \in Callers :
            (BeginsStop(c) /\ am.cmd # NoProc /\ procs[am.cmd].state \in Alive) =>
                /\ call'[c].pc = "stopWait"
                /\ procs'[am.cmd].sig = "TERM"]_vars
    /\ [][\A c \in Callers : \A p \in Spawned :
            (call[c].pc = "stopWait" /\ procs'[p].sig = "KILL" /\ procs[p].sig # "KILL") =>
                /\ p = am.cmd
                /\ procs[p].sig = "TERM" /\ procs[p].state \in Alive]_vars
    /\ [][\A c \in Callers :
            (call[c].pc = "stopWait" /\ call'[c].pc = "idle") =>
                /\ procs'[am.cmd].state = "dead"
                /\ ~sock'.file /\ ~am'.running
                /\ call'[c].done[Len(call'[c].done)] = [op |-> "Stop", ret |-> "nil"]]_vars

(***************************************************************************)
(* The working directory of a chroot-wrapped child                        *)
(***************************************************************************)
\* the elements of abs below the root, for abs inside the root
BelowRoot(root, abs) ==
    SubSeq(LexElems(abs), Len(LexElems(root)) + 1, Len(LexElems(abs)))

\* C22: once runExec of a server with a chroot executor has prepared the
\* command, the command's directory names, from the jail root, the requested
\* working directory when that is the root directory or below it, and is "/"
\* when the requested working directory is empty or not below the root.
C22_ChrootWorkingDir ==
    (chroot /\ hpc \notin {"runExec", "start"}) =>
        LET wd == payload.WorkingDir
        IN  IF wd # "" /\ IsAbs(wd) /\ LexInside(rootDir, wd)
               THEN IsAbs(cmdDir) /\ LexElems(cmdDir) = BelowRoot(rootDir, wd)
            ELSE cmdDir = Sep

(***************************************************************************)
(* Construction of a server                                                *)
(***************************************************************************)
\* the configuration asks for chroot within a root directory
ChrootRequested == boot.RootDir # "" /\ boot.UseChrootIfRoot

\* C23: NewServer called with a root directory and UseChrootIfRoot by a
\* process that is not uid 0, or that cannot prepare the chroot executor,
\* yields no server; a server that exists has a chroot executor only with a
\* root directory and uid 0, and has one whenever chroot was requested.
C23_FailFast ==
    /\ (ChrootRequested /\ (boot.uid # 0 \/ ~boot.stat)) => hpc # "idle"
    /\ (hpc = "idle" /\ chroot) => (rootDir # "" /\ boot.uid = 0)
    /\ (hpc = "idle" /\ ChrootRequested) => chroot

(***************************************************************************)
(* Exit codes of the daemon                                                *)
(***************************************************************************)
\* C24: a daemon exits with code 0 only after SIGINT or SIGTERM, its listener
\* closed and the socket file removed; a daemon that was not killed by a
\* signal and had no listener error exits with 0; and a daemon whose listener
\* failed, in net.Listen or in Accept, does not exit with code 0.
C24_ExitCodes ==
    /\ [][\A p \in 1..External :
            (procs'[p].exit = "0" /\ procs[p].exit # "0") =>
                /\ procs[p].sig = "TERM"
                /\ sock'.listener # p /\ ~sock'.file]_vars
    /\ [](\A p \in 1..External :
            (procs[p].state = "dead" /\ procs[p].exit # "signal"
             /\ procs[p].lerr = "none") => procs[p].exit = "0")
    /\ [](\A p \in 1..External :
            (procs[p].state = "dead" /\ procs[p].lerr # "none") =>
                procs[p].exit \notin {"0", "none"})

(***************************************************************************)
(* limitedBuffer                                                           *)
(***************************************************************************)
\* C25: a buffer with a limit above 0 holds the first bytes of all that was
\* written to it, as many as the limit allows; it never holds more than the
\* limit, it never shrinks, no Write returns an error, and a Write is always
\* possible.
C25_LimitedBuffer ==
    /\ [](cli.limit > 0 =>
            /\ cli.buf = SubSeq(cli.written, 1, Min(Len(cli.written), cli.limit))
            /\ Len(cli.buf) <= cli.limit
            /\ cli.ret.err = "nil"
            /\ cli.writes < MaxWrites => ENABLED LimitedBufferWrite)
    /\ [][cli.limit > 0 =>
            /\ Len(cli'.buf) >= Len(cli.buf)
            /\ SubSeq(cli'.buf, 1, Len(cli.buf)) = cli.buf]_vars

\* more was written than the limit allows, in several calls, the last of them
\* to a full buffer
C25_Witness ==
    /\ cli.limit = 2 /\ cli.writes = 3
    /\ Len(cli.written) = 7
    /\ cli.buf = <<1, 2>>
    /\ cli.ret.n = 4

(***************************************************************************)
(* Frames on the connection                                                *)
(***************************************************************************)
\* C26: the bytes on the connection are whole frames one after the other: a
\* byte that is not the first of its frame follows the byte before it of the
\* same frame, and a frame begins only where the frame before it is complete.
C26_WholeFrames ==
    \A i \in 1..Len(writer.wire) :
        LET b == writer.wire[i]
        IN  IF b[3] > 1
               THEN i > 1 /\ writer.wire[i - 1] = <<b[1], b[2], b[3] - 1>>
            ELSE i = 1 \/ writer.wire[i - 1][3] = FrameLen

\* the three tasks have each sent all their frames, not one task after the
\* other
C26_Witness ==
    /\ \A w \in Streams \cup {"stdin"} : writer.sent[w] = MaxSends
    /\ Len(writer.wire) = 3 * MaxSends * FrameLen
    /\ writer.wire[1][1] # writer.wire[FrameLen + 1][1]
    /\ writer.wire[1][1] = writer.wire[2 * FrameLen + 1][1]

PutRead ==
    LET n == nsent - Len(c2s) - 1 IN
    IF n > 0 THEN SubSeq(cli.sent, 1, n) ELSE <<>>

\* the payloads of the file_put_chunk frames among frames, in order
RECURSIVE PutBytes(_)
PutBytes(frames) ==
    IF frames = <<>> THEN <<>>
    ELSE (IF Head(frames).type = "file_put_chunk" /\ Head(frames).payload # BadPayload
             THEN Base64Decode(Head(frames).payload.Data) ELSE <<>>)
         \o PutBytes(Tail(frames))

\* the upload was ended by a file_put_close
PutClosed == Len(PutRead) > 0 /\ PutRead[Len(PutRead)].type = "file_put_close"

\* C28: during an upload the target holds the payloads of the chunks read so
\* far, in order, and nothing else, and was opened with the requested mode or,
\* for mode 0, with 0o644; a file_put_result is written only for a
\* file_put_close, as the only frame, and reports the number of bytes of the
\* chunks read, which the target then holds; and an upload that ends
\* otherwise ends, on a connection the client keeps open, with an error frame
\* as the only frame.
C28_Upload ==
    /\ hpc = "putLoop" =>
         /\ fs[payload.Path].exists
         /\ fs[payload.Path].data = PutBytes(PutRead)
         /\ xfer.written = Len(PutBytes(PutRead))
         /\ xfer.mode = IF payload.Mode = 0 THEN 420 ELSE payload.Mode
    /\ \A i \in 1..Len(s2c) :
         s2c[i].type = "file_put_result" =>
            /\ hpc = "closed" /\ Len(s2c) = 1 /\ PutClosed
            /\ s2c[i].payload.Bytes = Len(PutBytes(PutRead))
            /\ s2c[i].payload.Error = ""
            /\ fs[payload.Path].data = PutBytes(PutRead)
    /\ (hpc = "closed" /\ connUp) =>
         /\ Len(s2c) = 1
         /\ s2c[1].type = IF PutClosed THEN "file_put_result" ELSE "error"

\* two chunks and a file_put_close were read: the file that existed holds the
\* four bytes and the result reports them
C28_Witness ==
    /\ hpc = "closed" /\ payload.Path = "/o/f" /\ payload.Mode = 0
    /\ Len(PutRead) = 3
    /\ s2c = <<Frame("file_put_result", [Bytes |-> 4, Error |-> ""])>>
    /\ fs["/o/f"].data = <<6, 7, 6, 7>>
    /\ xfer.mode = 420

(***************************************************************************)
(* Downloads                                                               *)
(***************************************************************************)
\* CopyTo has returned nil and CopyFrom has dialled: the frames of s2c are
\* those of the download
Download == cli.put # None /\ cli.pc # "CopyFrom"

\* the payloads of the file_get_chunk frames among frames, in order
RECURSIVE GetBytes(_)
GetBytes(frames) ==
    IF frames = <<>> THEN <<>>
    ELSE (IF Head(frames).type = "file_get_chunk"
             THEN Base64Decode(Head(frames).payload.Data) ELSE <<>>)
         \o GetBytes(Tail(frames))

\* C29: in a download every file_get_chunk carries between one and chunk_size
\* bytes and the chunks sent so far are, concatenated, a prefix of the source;
\* a file_get_result is the last frame, follows chunks only and reports the
\* number of bytes of those chunks; it carries no error exactly when the whole
\* source was sent and end of file was read; a handler that has returned has
\* sent one file_get_result, or one error frame and nothing else when the
\* source could not be opened; CopyFrom returns nil only for a result without
\* an error, with the whole source in its writer, and returns an error once it
\* has read a result that carries one.
C29_Download ==
    Download =>
      LET src == fs[cli.path].data
          last == s2c[Len(s2c)] IN
      /\ \A i \in 1..Len(s2c) :
           s2c[i].type = "file_get_chunk" =>
              Len(Base64Decode(s2c[i].payload.Data)) \in 1..ChunkSize
      /\ IsPrefix(GetBytes(s2c), src)
      /\ \A i \in 1..Len(s2c) :
           s2c[i].type = "file_get_result" =>
              /\ i = Len(s2c) /\ hpc = "closed"
              /\ \A j \in 1..(i - 1) : s2c[j].type = "file_get_chunk"
              /\ s2c[i].payload.Bytes = Len(GetBytes(s2c))
              /\ s2c[i].payload.Error \in {"", "read failed"}
              /\ s2c[i].payload.Error = "" => GetBytes(s2c) = src
      /\ hpc = "closed" =>
           /\ Len(s2c) > 0
           /\ last.type \in {"file_get_result", "error"}
           /\ last.type = "error" => Len(s2c) = 1
      /\ cli.pc = "done" =>
           /\ last.type = "file_get_result" /\ last.payload.Error = ""
           /\ cli.sink = src
      /\ (Len(s2c) > 0 /\ cli.read = Len(s2c) /\ last.type = "file_get_result"
            /\ last.payload.Error # "") => cli.pc = "failed"

\* a read failed after the first chunk of a longer file: the result reports the
\* bytes of that chunk and the error, and CopyFrom has returned an error
C29_Witness ==
    /\ Download /\ hpc = "closed" /\ Len(s2c) = 2
    /\ s2c[1].type = "file_get_chunk"
    /\ s2c[2] = Frame("file_get_result", [Bytes |-> Len(GetBytes(s2c)), Error |-> "read failed"])
    /\ Len(GetBytes(s2c)) < Len(fs[cli.path].data)
    /\ cli.read = 2 /\ cli.pc = "failed"

(***************************************************************************)
(* The Done channel of a stream                                            *)
(***************************************************************************)
\* C30: forwardStream places at most one CommandResult on Done, it has placed
\* one when Done is closed, whatever made the task return, and what the
\* container's Stream then delivers on its own Done is a Result, not nil.
C30_OneResultOnDone ==
    /\ Len(cli.done) <= 1
    /\ IsClosed("Done") => Len(cli.done) = 1
    /\ \A i \in 1..Len(ContainerDone) : ~ContainerDone[i].nil

(***************************************************************************)
(* The running flag of the AgentManager                                    *)
(***************************************************************************)
\* C31: whenever IsRunning() can take am.mu and returns false, no daemon this
\* AgentManager spawned is alive.
C31_RunningFlag ==
    (am.mu = NoProc /\ ~am.running) => AliveDaemons(Spawned) = {}

(***************************************************************************)
(* The directory a validated child is started in                           *)
(***************************************************************************)
\* C32: a child started by a server with a root directory and without chroot
\* is started in the root directory or below it, whatever the working
\* directory of the daemon is, and in the root directory itself when the
\* request named no working directory.
C32_StartedInRoot ==
    (rootDir # "" /\ ~chroot /\ child.state = "running") =>
        \A cwd \in DaemonCwds :
            ~escapesRoot(rootDir, StartDir(cwd, cmdDir))

(***************************************************************************)
(* What allow_insecure relaxes                                             *)
(***************************************************************************)
\* the request breaks path containment or the shell policy
BreaksPathOrShellPolicy ==
    RequestEscapes \/ (ShellRequest /\ (HasDashC \/ ~HasScriptArgument))

\* the request is answered with the "security violation" error that path
\* validation gives for the request and the root directory alone
RejectedByValidation ==
    /\ NoChildStarted
    /\ hpc \in {"runExec", "closed"}
    /\ hpc = "closed" =>
          /\ AnsweredWithError
          /\ validatePaths(rootDir, payload).err # NoErr
          /\ s2c[1].payload = [Message |-> <<SecurityViolation,
                                            validatePaths(rootDir, payload).err>>,
                               arg |-> validatePaths(rootDir, payload).arg]

TrailingSep == HasSuffix(payload.Path, Sep)

C34_ChrootOrInsecure ==
    /\ boot.AllowInsecure = ~boot.UseChrootIfRoot
    /\ (hpc = "idle" /\ rootDir # "") => (chroot = ~allowInsecure)

\* a daemon started without root privileges and with -no-chroot serves its
\* root directory in insecure mode
C34_Witness ==
    /\ hpc = "idle" /\ rootDir = "/r" /\ ~chroot /\ allowInsecure
    /\ boot.uid # 0 /\ boot.chrootFlag /\ boot.noChroot

(***************************************************************************)
(* The environment of a child                                              *)
(***************************************************************************)
\* the entries NAME=value of a map
EnvEntries(m) == {k \o "=" \o m[k] : k \in DOMAIN m}

\* C35: the environment a child is started with consists of the entries of
\* the request's env, one per name, and of nothing else, also when the
\* request's env has no entries.
C35_ChildEnvIsRequestEnv ==
    env.started => env.child = EnvEntries(env.request)

(***************************************************************************)
(* What the interpreter policy refuses                                     *)
(***************************************************************************)
\* C36: a request refused by the interpreter policy names an executable whose
\* base name is an entry of the interpreter list or starts with "python".
C36_OnlyInterpretersRefused ==
    RefusedAsInterpreter => ListedInterpreter(Base(payload.Path))

(***************************************************************************)
(* The deadline of an exec with a timeout                                  *)
(***************************************************************************)
\* C37: the request Exec sends carries a timeout_ms above 0 exactly when the
\* Command.Timeout is above 0, and the child the server starts for it has a
\* deadline exactly when the Command.Timeout is above 0.
C37_TimeoutMeansDeadline ==
    /\ Dispatched => (payload.TimeoutMilli > 0 <=> cli.timeout > 0)
    /\ child.state # "none" => (deadline # "none" <=> cli.timeout > 0)

(***************************************************************************)
(* What a client operation leaves behind                                   *)
(***************************************************************************)
\* C38: once the forwarding task of an ExecStream has placed its result on
\* Done and closed the three channels, the client's end of the connection is
\* closed and the close-on-cancel task has ended, whether or not Cancel was
\* called.
C38_StreamReleased ==
    (cli.fwd = "done" /\ Len(cli.done) = 1 /\ Len(cli.closed) = 3)
        => (~connUp /\ ~WatcherWaiting)

(***************************************************************************)
(* Stop on an AgentManager that spawned no daemon                          *)
(***************************************************************************)
\* the supervisor where, besides, somebody else may start a daemon on the
\* socket path at any time nobody listens on it
SpecSupExt == SupInit /\ [][SupNext \/ ExternalStart]_vars

\* no Start was ever called on the AgentManager
NeverStarted ==
    \A d \in Callers :
        /\ call[d].pc = "idle"
        /\ \A i \in 1..Len(call[d].done) : call[d].done[i].op # "Start"

\* C39: a Stop on an AgentManager whose last Start found a daemon answering
\* and spawned none, or on which Start was never called, returns nil at once,
\* signals no process and leaves the socket path as it is.
C39_StopLeavesReused ==
    [][\A c \in Callers :
         (BeginsStop(c) /\ ((am.running /\ am.reused) \/ NeverStarted)) =>
             /\ call'[c].pc = "idle"
             /\ call'[c].done[Len(call'[c].done)] = [op |-> "Stop", ret |-> "nil"]
             /\ procs' = procs
             /\ sock' = sock]_vars

(***************************************************************************)
(* The names of the container Manager                                      *)
(***************************************************************************)
\* the call that has just returned
JustReturned(op) == mgr'.calls = mgr.calls + 1 /\ mgr'.last.op = op

\* C40: in the Manager every managed name has a container of its own that no
\* other name has; CreateContainer of a managed name returns
\* ErrContainerExists and DeleteContainer of an unmanaged name returns
\* ErrContainerNotFound; a CreateContainer or DeleteContainer that returns an
\* error leaves the managed containers as they were; a DeleteContainer that
\* returns nil leaves the name unmanaged, so that a CreateContainer of it is
\* not refused as existing and registers a new container when the VM is
\* made; and Start and Exec on a container deleted through the Manager, and
\* not created again since, return ErrContainerNotCreated.
C40_ManagerNames ==
    /\ [](\A n1, n2 \in Managed :
            n1 # n2 => mgr.containers[n1] # mgr.containers[n2])
    /\ [](\A c \in Handles : mgr.deleted[c] =>
            /\ ~mgr.vm[c]
            /\ \A n \in ContainerNames : mgr.containers[n] # c)
    /\ [][/\ (JustReturned("CreateContainer") /\ mgr'.last.name \in Managed) =>
                 mgr'.last.ret = ErrContainerExists
          /\ (JustReturned("DeleteContainer") /\ mgr'.last.name \notin Managed) =>
                 mgr'.last.ret = ErrContainerNotFound
          /\ ((JustReturned("CreateContainer") \/ JustReturned("DeleteContainer"))
                 /\ mgr'.last.ret # "nil") =>
                 /\ mgr'.containers = mgr.containers
                 /\ mgr'.vm = mgr.vm
          /\ (JustReturned("DeleteContainer") /\ mgr'.last.ret = "nil") =>
                 /\ mgr'.containers =
                        [mgr.containers EXCEPT ![mgr'.last.name] = NoContainer]
                 /\ mgr'.deleted[mgr'.last.h]
          /\ (JustReturned("CreateContainer") /\ mgr'.last.name \in ContainerNames
                 /\ mgr'.last.name \notin Managed) =>
                 /\ mgr'.last.ret \in {"nil", "create vm"}
                 /\ mgr'.last.ret = "nil" =>
                        /\ mgr'.last.h \notin {mgr.containers[n] : n \in ContainerNames}
                        /\ mgr'.containers =
                               [mgr.containers EXCEPT ![mgr'.last.name] = mgr'.last.h]
          /\ ((JustReturned("Start") \/ JustReturned("Exec")) /\ mgr.deleted[mgr'.last.h]) =>
                 mgr'.last.ret = ErrContainerNotCreated]_vars

\* a name was created, deleted and created again, and Exec on the container
\* of the first creation has just returned ErrContainerNotCreated
C40_Witness ==
    /\ mgr # None
    /\ mgr.last = Called("Exec", NilCfg, 1, ErrContainerNotCreated)
    /\ mgr.deleted[1]
    /\ mgr.containers["a"] = 2

=============================================================================
